---- MODULE Spec2Model ----
\* Order-to-CRM synchronisation of the Destiny Cards checkout functions:
\* the Stripe webhook (stripe-webhook.js), the Keap backfill (backfill-keap.js),
\* the tracking update (update-tracking.js), the fulfilment check
\* (check-fulfillment.js) and the order listings (get-orders.js and the
\* get-orders handler held in get-inventory.js), modelled one CRM / payments
\* request per step against an explicit model of the CRM's contact records.
EXTENDS Integers, Sequences, FiniteSets, TLC

\* ------------------------------------------------------------------ bounds
MaxSessions == 4        \* checkout sessions known to the payments provider
MaxInvocations == 2     \* handler invocations in one behaviour
MaxFaults == 1          \* non-2xx / thrown provider answers in one behaviour
MaxOps == 4             \* invocations in one behaviour of the fulfilment functions

\* --------------------------------------------------------- program constants
PAYMENT_ID == 311
CARDS_TRACKING_NUMBER == 315
BOOK_TRACKING_NUMBER == 319
HAS_PREORDER == 323
ORDER_HISTORY == 325
TOTAL_SPENT == 327

FieldIds == {PAYMENT_ID, CARDS_TRACKING_NUMBER, BOOK_TRACKING_NUMBER,
             HAS_PREORDER, ORDER_HISTORY, TOTAL_SPENT}

NoEmail == "none"       \* session.customer_details?.email is undefined/null
WhIds == {1, 2}         \* webhook invocations that may be in flight

\* ------------------------------------------------ the payments provider
\* The completed checkout sessions, newest first.  Sessions 1, 2 and 4 share
\* a customer email and have distinct payment intents; every third session
\* has no customer email.
SessionIds == 1..MaxSessions

SessEmail(s) == IF s % 3 = 0 THEN NoEmail ELSE IF s <= 4 THEN "a" ELSE "b"

SessPaymentIntent(s) == s

\* amount_total in minor units (cents)
SessAmountTotal(s) == 2000 + 1005 * s

\* the product catalogue: ids of PRODUCTS, and the one shipped in two parts
ProductIds == {"cards-only", "cards-book-bundle"}

SplitShipment(productId) == productId = "cards-book-bundle"

\* metadata.cartItems: the JSON text written at session creation (kind
\* "json", with the product ids of its items), or no such key at all (every
\* third session), or a text that is not JSON (every fourth session: its
\* metadata did not come from create-checkout-session)
SessMetaCartItems(s) ==
  IF s % 4 = 0 THEN [kind |-> "unparseable", items |-> <<>>]
  ELSE IF s % 3 = 0 THEN [kind |-> "missing", items |-> <<>>]
  ELSE [kind |-> "json",
        items |-> IF s % 2 = 0 THEN <<"cards-book-bundle">> ELSE <<"cards-only">>]

\* JSON.parse(metadata.cartItems || '[]'): the value, or a thrown SyntaxError
JsonParseCart(meta) ==
  [threw |-> meta.kind = "unparseable",
   value |-> IF meta.kind = "json" THEN meta.items ELSE <<>>]

\* faulty variant: the catch keeps the unparsed text as the cart's only item
ParseCartItems_KeepsRawText(meta) ==
  IF JsonParseCart(meta).threw THEN <<"unparseable">> ELSE JsonParseCart(meta).value

\* cartItems after the try/catch around the parse: [] when it threw
ParseCartItems(meta) ==
  IF JsonParseCart(meta).threw THEN <<>> ELSE JsonParseCart(meta).value

\* cartItems.some(item => PRODUCTS[item.productId]?.splitShipment)
CartHasSplitShipment(cart) == \E k \in 1..Len(cart) : SplitShipment(cart[k])

\* metadata.hasPreOrder / metadata.emailConsent, stringified booleans.  A
\* session of create-checkout-session carries hasPreOrder computed from its
\* cart; the sessions with a non-JSON cart carry 'true'.
SessMetaHasPreOrder(s) ==
  IF SessMetaCartItems(s).kind = "unparseable" THEN "true"
  ELSE IF CartHasSplitShipment(SessMetaCartItems(s).items) THEN "true" ELSE "false"

SessMetaEmailConsent(s) == IF s % 2 = 0 THEN "true" ELSE "false"

SessHasAddress(s) == s % 2 = 1

\* --------------------------------------------------- number <-> string
Digit == <<"0", "1", "2", "3", "4", "5", "6", "7", "8", "9">>

IsDigit(ch) == \E d \in 0..9 : Digit[d + 1] = ch

DigitVal(ch) == CHOOSE d \in 0..9 : Digit[d + 1] = ch

RECURSIVE IntDigits(_)
IntDigits(n) ==
  IF n < 10 THEN <<Digit[n + 1]>>
  ELSE IntDigits(n \div 10) \o <<Digit[(n % 10) + 1]>>

\* Number.prototype.toFixed(2) of an amount held in cents.  Amounts are sums
\* of two-decimal values far below 2^53, so the double nearest to the sum
\* rounds to the exact cent value.
toFixed2(c) ==
  IntDigits(c \div 100) \o <<".">> \o <<Digit[((c \div 10) % 10) + 1], Digit[(c % 10) + 1]>>

NaN == -1

RECURSIVE DigitsValue(_)
DigitsValue(ds) ==
  IF ds = <<>> THEN 0
  ELSE 10 * DigitsValue(SubSeq(ds, 1, Len(ds) - 1)) + DigitVal(ds[Len(ds)])

\* parseFloat of a field content, result in cents: the longest numeric prefix
\* "<digits>[.<digits>]"; NaN when the content does not start with a digit.
parseFloat(str) ==
  LET n == Len(str)
      intEnd == IF \E k \in 1..n : ~IsDigit(str[k])
                THEN (CHOOSE k \in 1..n : ~IsDigit(str[k]) /\ \A j \in 1..(k - 1) : IsDigit(str[j])) - 1
                ELSE n
      hasFrac == intEnd < n /\ str[intEnd + 1] = "."
      fracAll == IF hasFrac THEN SubSeq(str, intEnd + 2, n) ELSE <<>>
      fracEnd == IF \E k \in 1..Len(fracAll) : ~IsDigit(fracAll[k])
                 THEN (CHOOSE k \in 1..Len(fracAll) : ~IsDigit(fracAll[k]) /\ \A j \in 1..(k - 1) : IsDigit(fracAll[j])) - 1
                 ELSE Len(fracAll)
      d1 == IF fracEnd >= 1 THEN DigitVal(fracAll[1]) ELSE 0
      d2 == IF fracEnd >= 2 THEN DigitVal(fracAll[2]) ELSE 0
  IN IF intEnd = 0 THEN NaN
     ELSE 100 * DigitsValue(SubSeq(str, 1, intEnd)) + 10 * d1 + d2

\* ------------------------------------------------------------- the CRM
\* A custom-field content is a sequence; the empty sequence is the empty
\* string (falsy).  The order history is a sequence of tokens: order entries
\* and "\n---\n" separators.
Sep == [k |-> "sep", pid |-> 0, amt |-> <<>>]

Entry(pid, amountCents) == [k |-> "entry", pid |-> pid, amt |-> toFixed2(amountCents)]

EmptyFields == [f \in FieldIds |-> <<>>]

YesNo(b) == IF b THEN <<"Y", "e", "s">> ELSE <<"N", "o">>

VARIABLES
  contacts,     \* CRM contacts, contact id = index
  crmTags,      \* names of the tag objects that exist in the CRM
  wh,           \* webhook invocations
  bf,           \* the backfill invocation
  ut,           \* the update-tracking invocation
  chk,          \* the check-fulfillment invocation
  go,           \* the get-orders invocation
  synced,       \* history: per email, payment ids of completed webhook syncs, newest first
  faults,       \* provider failures injected so far (n) and the last provider answer (last)
  invocations   \* handler invocations started so far

vars == <<contacts, crmTags, wh, bf, ut, chk, go, synced, faults, invocations>>

\* ------------------------------------------------- admin authorization
\* process.env.ADMIN_API_KEY, unset or set, and the Authorization header sent
AdminKeys == {"unset", "k1"}

AuthHeaders == {"absent", "Bearer k1", "Bearer undefined", "k1", "Bearer k2"}

\* the template literal `Bearer ${adminKey}`
BearerOf(adminKey) == IF adminKey = "unset" THEN "Bearer undefined" ELSE "Bearer k1"

\* faulty variant: the server-side key is not required to be set
Authorized_KeyNotRequired(adminKey, authHeader) == authHeader = BearerOf(adminKey)

\* the negation of  !adminKey || authHeader !== `Bearer ${adminKey}`
Authorized(adminKey, authHeader) == ~(adminKey = "unset" \/ authHeader # BearerOf(adminKey))

\* ---------------------------------------------------------- CRM requests
Resp == {"ok", "r429", "err"}       \* 2xx, HTTP 429, any other non-2xx

\* a non-2xx answer uses up one of the behaviour's faults
Answers(r) == r = "ok" \/ faults.n < MaxFaults

Charge(r) == faults' = [n |-> IF r = "ok" THEN faults.n ELSE faults.n + 1, last |-> r]

\* GET /contacts?email=...: ids of the contacts with that email.  An undefined
\* email is sent as the text "undefined", which matches no contact.
ContactsByEmail(email) ==
  {c \in 1..Len(contacts) : email # NoEmail /\ contacts[c].email = email}

FirstContact(email) ==
  CHOOSE c \in ContactsByEmail(email) : \A d \in ContactsByEmail(email) : c <= d

\* history of the contact, not a field of the CRM: the payment ids written to
\* the contact since a tracking number was last written to it
SinceTracking(pids, payload) ==
  IF CARDS_TRACKING_NUMBER \in DOMAIN payload.cf \/ BOOK_TRACKING_NUMBER \in DOMAIN payload.cf
  THEN {}
  ELSE IF PAYMENT_ID \in DOMAIN payload.cf THEN pids \cup {payload.cf[PAYMENT_ID][1]}
  ELSE pids

\* faulty variant: a write does not replace a history or total already stored
PatchContact_KeepsStoredHistory(c, payload) ==
  [c EXCEPT !.cf = [f \in FieldIds |->
                      IF f \in {ORDER_HISTORY, TOTAL_SPENT} /\ @[f] # <<>> THEN @[f]
                      ELSE IF f \in DOMAIN payload.cf THEN payload.cf[f] ELSE @[f]],
            !.optIn = IF payload.optIn = "reason" THEN TRUE ELSE @,
            !.addr = IF payload.addr = "block" THEN TRUE ELSE @]

\* PATCH /contacts/{id}: the custom fields of the payload replace the
\* contact's; fields the payload does not carry are kept.
PatchContact(c, payload) ==
  [c EXCEPT !.cf = [f \in FieldIds |-> IF f \in DOMAIN payload.cf THEN payload.cf[f] ELSE @[f]],
            !.optIn = IF payload.optIn = "reason" THEN TRUE ELSE @,
            !.addr = IF payload.addr = "block" THEN TRUE ELSE @,
            !.sinceTracking = SinceTracking(@, payload)]

\* POST /contacts
NewContact(payload) ==
  PatchContact([email |-> payload.email, cf |-> EmptyFields, tags |-> {},
                optIn |-> FALSE, addr |-> FALSE, sinceTracking |-> {}], payload)

\* ------------------------------------------------------ the Order Record
\* handleCheckoutComplete: the record handed to integrateWithKeap
WebhookOrder(s) ==
  [email |-> SessEmail(s),
   emailConsent |-> SessMetaEmailConsent(s) = "true",
   cartItems |-> ParseCartItems(SessMetaCartItems(s)),
   shippingAddress |-> SessHasAddress(s),
   paymentId |-> SessPaymentIntent(s),
   amountPaid |-> SessAmountTotal(s),
   hasPreOrder |-> SessMetaHasPreOrder(s) = "true"]

NoOrder ==
  [email |-> NoEmail, emailConsent |-> FALSE, cartItems |-> <<>>, shippingAddress |-> FALSE,
   paymentId |-> 0, amountPaid |-> 0, hasPreOrder |-> FALSE]

\* product-specific tags, one per cart item with a known product id
RECURSIVE ProductTags(_)
ProductTags(cart) ==
  IF cart = <<>> THEN <<>>
  ELSE (IF cart[1] = "cards-only" THEN <<"Cards Only">>
        ELSE IF cart[1] = "cards-book-bundle" THEN <<"Cards + Book Bundle">>
        ELSE <<>>) \o ProductTags(Tail(cart))

\* integrateWithKeap: the tag list in application order
WebhookTags(order, isReturningCustomer) ==
  <<"Order Received", "1st Edition", "Awaiting Shipment">>
  \o (IF isReturningCustomer THEN <<"Repeat Customer">> ELSE <<>>)
  \o ProductTags(order.cartItems)
  \o (IF order.hasPreOrder THEN <<"Pre-Order", "Pending Book Shipment">> ELSE <<>>)
  \o <<"Month Year">>

\* Number.prototype.toString of an amount held in cents: no trailing zeros
toStringAmount(c) ==
  IF c % 100 = 0 THEN IntDigits(c \div 100)
  ELSE IF c % 10 = 0 THEN IntDigits(c \div 100) \o <<".", Digit[((c \div 10) % 10) + 1]>>
  ELSE toFixed2(c)

\* faulty variant: total spent written with toString() instead of toFixed(2)
WebhookPayload_TotalToString(order, orderHistory, totalSpent) ==
  [email |-> order.email,
   cf |-> (PAYMENT_ID :> <<order.paymentId>>) @@ (HAS_PREORDER :> YesNo(order.hasPreOrder))
          @@ (ORDER_HISTORY :> orderHistory) @@ (TOTAL_SPENT :> toStringAmount(totalSpent)),
   optIn |-> IF order.emailConsent THEN "reason" ELSE "absent",
   addr |-> IF order.shippingAddress THEN "block" ELSE "absent"]

\* faulty variant: the payload resets the two tracking-number fields
WebhookPayload_ClearsTracking(order, orderHistory, totalSpent) ==
  [email |-> order.email,
   cf |-> (PAYMENT_ID :> <<order.paymentId>>) @@ (HAS_PREORDER :> YesNo(order.hasPreOrder))
          @@ (ORDER_HISTORY :> orderHistory) @@ (TOTAL_SPENT :> toFixed2(totalSpent))
          @@ (CARDS_TRACKING_NUMBER :> <<>>) @@ (BOOK_TRACKING_NUMBER :> <<>>),
   optIn |-> IF order.emailConsent THEN "reason" ELSE "absent",
   addr |-> IF order.shippingAddress THEN "block" ELSE "absent"]

\* integrateWithKeap: the create/update payload
WebhookPayload(order, orderHistory, totalSpent) ==
  [email |-> order.email,
   cf |-> (PAYMENT_ID :> <<order.paymentId>>) @@ (HAS_PREORDER :> YesNo(order.hasPreOrder))
          @@ (ORDER_HISTORY :> orderHistory) @@ (TOTAL_SPENT :> toFixed2(totalSpent)),
   optIn |-> IF order.emailConsent THEN "reason" ELSE "absent",
   addr |-> IF order.shippingAddress THEN "block" ELSE "absent"]

\* integrateWithKeap: history and total spent merged with the contact detail
MergedHistory(order, c) ==
  IF c.cf[ORDER_HISTORY] # <<>>
  THEN <<Entry(order.paymentId, order.amountPaid), Sep>> \o c.cf[ORDER_HISTORY]
  ELSE <<Entry(order.paymentId, order.amountPaid)>>

MergedTotal(order, c) ==
  IF c.cf[TOTAL_SPENT] # <<>>
  THEN (LET parsed == parseFloat(c.cf[TOTAL_SPENT])
            previousTotal == IF parsed = NaN \/ parsed = 0 THEN 0 ELSE parsed
        IN previousTotal + order.amountPaid)
  ELSE order.amountPaid

\* ------------------------------------------------------ stripe-webhook.js
EventTypes == {"checkout.session.completed", "checkout.session.async_payment_succeeded",
               "checkout.session.async_payment_failed", "other"}

WhIdle ==
  [pc |-> "idle", etype |-> "none", sess |-> 0, order |-> NoOrder,
   isReturningCustomer |-> FALSE, contactId |-> 0, orderHistory |-> <<>>, totalSpent |-> 0,
   tags |-> <<>>, tagIdx |-> 0, tagErrors |-> {}, statusCode |-> 0, sync |-> "none",
   crmCalls |-> 0, crmWrites |-> 0, known |-> FALSE, stripeCalls |-> 0, missing |-> "none",
   verification |-> "none"]

\* faulty variant: the failure of the CRM sync is thrown on to the handler
WhSyncFailed_Rethrows(w) == [w EXCEPT !.pc = "done", !.statusCode = 500, !.sync = "failed"]

\* catch (keapError) in handleCheckoutComplete: the failure is logged, the
\* handler goes on to answer 200 {received: true}
WhSyncFailed(w) == [w EXCEPT !.pc = "done", !.statusCode = 200, !.sync = "failed"]

\* the event types of the checkout sessions the webhook syncs
SyncEventTypes == {"checkout.session.completed", "checkout.session.async_payment_succeeded"}

\* faulty variant: a failed asynchronous payment is handled as a completed checkout
WhHandled_AlsoFailedPayments(etype) ==
  etype \in SyncEventTypes \cup {"checkout.session.async_payment_failed"}

\* switch (stripeEvent.type): the cases that call handleCheckoutComplete
WhHandled(etype) == etype \in SyncEventTypes

\* exports.handler up to the dispatch on the event type
WhReceive(i) ==
  /\ wh[i].pc = "idle"
  /\ \E method \in {"POST", "GET"} :
       IF method # "POST"
       THEN wh' = [wh EXCEPT ![i] = [WhIdle EXCEPT !.pc = "done", !.statusCode = 405]]
       ELSE \E stripeKey \in BOOLEAN :
         IF ~stripeKey
         THEN wh' = [wh EXCEPT ![i] = [WhIdle EXCEPT !.pc = "done", !.statusCode = 400,
                                                     !.missing = "stripe",
                                                     !.verification = "failed"]]
         ELSE \E verified \in BOOLEAN :
         IF ~verified
         THEN wh' = [wh EXCEPT ![i] = [WhIdle EXCEPT !.pc = "done", !.statusCode = 400,
                                                     !.verification = "failed"]]
         ELSE \E etype \in EventTypes :
           IF WhHandled(etype)
           THEN \E s \in SessionIds :
                  wh' = [wh EXCEPT ![i] =
                           [WhIdle EXCEPT !.pc = "retrieve", !.etype = etype, !.sess = s,
                                          !.verification = "passed"]]
           ELSE wh' = [wh EXCEPT ![i] =
                         [WhIdle EXCEPT !.pc = "done", !.statusCode = 200, !.etype = etype,
                                        !.verification = "passed"]]
  /\ invocations' = invocations + 1
  /\ UNCHANGED <<chk, go, contacts, crmTags, bf, ut, synced, faults>>

\* handleCheckoutComplete: stripe.checkout.sessions.retrieve, then the Order
\* Record and the call of integrateWithKeap up to its first CRM request
WhRetrieve(i) ==
  /\ wh[i].pc = "retrieve"
  /\ \E r \in {"ok", "err"}, keapToken \in BOOLEAN :
       /\ Answers(r)
       /\ Charge(r)
       /\ LET w == [wh[i] EXCEPT !.stripeCalls = @ + 1]
          IN wh' = [wh EXCEPT ![i] =
               IF r # "ok" THEN [w EXCEPT !.pc = "done", !.statusCode = 500]
               ELSE IF ~keapToken
                    THEN WhSyncFailed([w EXCEPT !.order = WebhookOrder(w.sess),
                                                !.missing = "keap"])
               ELSE [w EXCEPT !.pc = "search", !.order = WebhookOrder(w.sess)]]
  /\ UNCHANGED <<chk, go, contacts, crmTags, bf, ut, synced, invocations>>

\* integrateWithKeap: contact search by email
WhSearch(i) ==
  /\ wh[i].pc = "search"
  /\ \E r \in Resp :
       /\ Answers(r)
       /\ Charge(r)
       /\ LET w == [wh[i] EXCEPT !.crmCalls = @ + 1,
                                  !.known = ContactsByEmail(wh[i].order.email) # {}]
              found == ContactsByEmail(w.order.email) # {}
          IN wh' = [wh EXCEPT ![i] =
               IF r # "ok" THEN WhSyncFailed(w)
               ELSE [w EXCEPT !.pc = IF found THEN "detail" ELSE "write",
                              !.isReturningCustomer = found,
                              !.contactId = IF found THEN FirstContact(w.order.email) ELSE 0,
                              !.orderHistory = <<Entry(w.order.paymentId, w.order.amountPaid)>>,
                              !.totalSpent = w.order.amountPaid]]
  /\ UNCHANGED <<chk, go, contacts, crmTags, bf, ut, synced, invocations>>

\* integrateWithKeap: contact detail read of a returning customer
WhDetail(i) ==
  /\ wh[i].pc = "detail"
  /\ \E r \in Resp :
       /\ Answers(r)
       /\ Charge(r)
       /\ LET w == [wh[i] EXCEPT !.crmCalls = @ + 1, !.pc = "write"]
              c == contacts[w.contactId]
          IN wh' = [wh EXCEPT ![i] =
               IF r = "ok"
               THEN [w EXCEPT !.orderHistory = MergedHistory(w.order, c),
                              !.totalSpent = MergedTotal(w.order, c)]
               ELSE w]
  /\ UNCHANGED <<chk, go, contacts, crmTags, bf, ut, synced, invocations>>

\* integrateWithKeap: contact update (PATCH) or create (POST)
WhWrite(i) ==
  /\ wh[i].pc = "write"
  /\ \E r \in Resp :
       /\ Answers(r)
       /\ Charge(r)
       /\ LET w == [wh[i] EXCEPT !.crmCalls = @ + 1, !.crmWrites = @ + 1]
              payload == WebhookPayload(w.order, w.orderHistory, w.totalSpent)
          IN IF r # "ok"
             THEN /\ wh' = [wh EXCEPT ![i] = WhSyncFailed(w)]
                  /\ UNCHANGED contacts
             ELSE /\ contacts' =
                       IF w.isReturningCustomer
                       THEN [contacts EXCEPT ![w.contactId] = PatchContact(@, payload)]
                       ELSE Append(contacts, NewContact(payload))
                  /\ wh' = [wh EXCEPT ![i] =
                       [w EXCEPT !.pc = "tagSearch",
                                 !.contactId = IF w.isReturningCustomer THEN @ ELSE Len(contacts) + 1,
                                 !.tags = WebhookTags(w.order, w.isReturningCustomer),
                                 !.tagIdx = 1]]
  /\ UNCHANGED <<chk, go, crmTags, bf, ut, synced, invocations>>

\* faulty variant: the loop leaves out the tag after the current one
WhNextTag_SkipsTag(w) ==
  IF w.tagIdx + 1 < Len(w.tags)
  THEN [w EXCEPT !.pc = "tagSearch", !.tagIdx = @ + 2]
  ELSE [w EXCEPT !.pc = "done", !.statusCode = 200, !.sync = "ok"]

\* the tag loop moves on to the next tag; after the last one integrateWithKeap
\* returns {success: true, contactId} and the handler answers 200
WhNextTag(w) ==
  IF w.tagIdx < Len(w.tags)
  THEN [w EXCEPT !.pc = "tagSearch", !.tagIdx = @ + 1]
  ELSE [w EXCEPT !.pc = "done", !.statusCode = 200, !.sync = "ok"]

WhStep(i, w) ==
  /\ wh' = [wh EXCEPT ![i] = w]
  /\ synced' = IF w.sync = "ok"
               THEN [synced EXCEPT ![w.order.email] = <<w.order.paymentId>> \o @]
               ELSE synced

\* faulty variant: a failed tag ends the sync as a failure
WhTagFailed_Aborts(w) ==
  [w EXCEPT !.tagErrors = @ \cup {w.tags[w.tagIdx]}, !.pc = "done", !.statusCode = 200,
            !.sync = "failed"]

\* catch (tagError): log and continue with the next tag
WhTagFailed(w) == WhNextTag([w EXCEPT !.tagErrors = @ \cup {w.tags[w.tagIdx]}])

\* getOrCreateTag: tag search by name
WhTagSearch(i) ==
  /\ wh[i].pc = "tagSearch"
  /\ \E r \in Resp :
       /\ Answers(r)
       /\ Charge(r)
       /\ LET w == [wh[i] EXCEPT !.crmCalls = @ + 1]
          IN WhStep(i, IF r # "ok" THEN WhTagFailed(w)
                       ELSE IF w.tags[w.tagIdx] \in crmTags THEN [w EXCEPT !.pc = "tagApply"]
                       ELSE [w EXCEPT !.pc = "tagCreate"])
  /\ UNCHANGED <<chk, go, contacts, crmTags, bf, ut, invocations>>

\* getOrCreateTag: tag create
WhTagCreate(i) ==
  /\ wh[i].pc = "tagCreate"
  /\ \E r \in Resp :
       /\ Answers(r)
       /\ Charge(r)
       /\ LET w == [wh[i] EXCEPT !.crmCalls = @ + 1, !.crmWrites = @ + 1]
          IN /\ WhStep(i, IF r # "ok" THEN WhTagFailed(w) ELSE [w EXCEPT !.pc = "tagApply"])
             /\ crmTags' = IF r = "ok" THEN crmTags \cup {w.tags[w.tagIdx]} ELSE crmTags
  /\ UNCHANGED <<chk, go, contacts, bf, ut, invocations>>

\* applyTagToContact
WhTagApply(i) ==
  /\ wh[i].pc = "tagApply"
  /\ \E r \in Resp :
       /\ Answers(r)
       /\ Charge(r)
       /\ LET w == [wh[i] EXCEPT !.crmCalls = @ + 1, !.crmWrites = @ + 1]
          IN /\ WhStep(i, IF r # "ok" THEN WhTagFailed(w) ELSE WhNextTag(w))
             /\ contacts' = IF r = "ok"
                            THEN [contacts EXCEPT ![w.contactId].tags = @ \cup {w.tags[w.tagIdx]}]
                            ELSE contacts
  /\ UNCHANGED <<chk, go, crmTags, bf, ut, invocations>>

\* the response is delivered and the invocation ends
WhReturn(i) ==
  /\ wh[i].pc = "done"
  /\ wh' = [wh EXCEPT ![i] = WhIdle]
  /\ UNCHANGED <<chk, go, contacts, crmTags, bf, ut, synced, faults, invocations>>

\* -------------------------------------------------------- backfill-keap.js
\* The request body: absent, not JSON, the JSON literal null, another JSON
\* scalar, or a JSON object with or without dryRun / limit.
BfBodies ==
  {[kind |-> k, dryRun |-> "absent", limit |-> 0] : k \in {"missing", "unparseable", "null", "scalar"}}
  \cup {[kind |-> "object", dryRun |-> d, limit |-> l] :
          d \in {"absent", "false", "true", "string false", "zero", "null"}, l \in {0, 2}}

\* options after the try/catch around JSON.parse(event.body || '{}')
ParseOptions(body) ==
  IF body.kind \in {"missing", "unparseable"} THEN [kind |-> "object", dryRun |-> "absent", limit |-> 0]
  ELSE body

\* options.dryRun on null throws a TypeError outside every try block
OptionsThrow(body) == ParseOptions(body).kind = "null"

\* const dryRun = options.dryRun !== false
DryRunOf(body) ==
  LET options == ParseOptions(body)
  IN ~(options.kind = "object" /\ options.dryRun = "false")

DefaultLimit == 100

\* const limit = options.limit || 100
LimitOf(body) ==
  LET options == ParseOptions(body)
  IN IF options.kind = "object" /\ options.limit # 0 THEN options.limit ELSE DefaultLimit

\* stripe.checkout.sessions.list({status: 'complete', limit})
ListSessions(limit) ==
  [k \in 1..(IF limit < MaxSessions THEN limit ELSE MaxSessions) |-> k]

\* const hasOrderData = existingContact && hasExistingOrderData(existingContact)
hasExistingOrderData(c) == c.cf[PAYMENT_ID] # <<>>

\* let hasPreOrder = false; try { cartItems = JSON.parse(...); hasPreOrder =
\* metadata.hasPreOrder === 'true' } catch: the flag stays false when the parse
\* threw (backfill and both order listings)
MetaHasPreOrderInTry(s) ==
  IF JsonParseCart(SessMetaCartItems(s)).threw THEN FALSE ELSE SessMetaHasPreOrder(s) = "true"

\* orderData of the backfill handler, with the emailConsent argument
BackfillOrder(s) ==
  [email |-> SessEmail(s),
   emailConsent |-> SessMetaEmailConsent(s) = "true",
   cartItems |-> ParseCartItems(SessMetaCartItems(s)),
   shippingAddress |-> SessHasAddress(s),
   paymentId |-> SessPaymentIntent(s),
   amountPaid |-> SessAmountTotal(s),
   hasPreOrder |-> MetaHasPreOrderInTry(s)]

\* syncToKeap: the create/update payload
BackfillPayload(order) ==
  [email |-> order.email,
   cf |-> (PAYMENT_ID :> <<order.paymentId>>) @@ (HAS_PREORDER :> YesNo(order.hasPreOrder))
          @@ (ORDER_HISTORY :> <<Entry(order.paymentId, order.amountPaid)>>)
          @@ (TOTAL_SPENT :> toFixed2(order.amountPaid)),
   optIn |-> IF order.emailConsent THEN "reason" ELSE "null",
   addr |-> IF order.shippingAddress THEN "block" ELSE "empty"]

\* syncToKeap: the tag list in application order
BackfillTags(order) ==
  <<"Order Received", "1st Edition", "Awaiting Shipment">>
  \o ProductTags(order.cartItems)
  \o (IF order.hasPreOrder THEN <<"Pre-Order", "Pending Book Shipment">> ELSE <<>>)
  \o <<"Month Year">>

\* the report of the latest backfill run that returned one (history, kept
\* across invocations): dry or live, the sessions listed, the sessions
\* reported would_sync / synced and skipped, the number of errors, and the
\* CRM the run started from
NoReport ==
  [kind |-> "none", sessions |-> <<>>, synced |-> {}, skipped |-> {}, errors |-> 0,
   before |-> [contacts |-> <<>>, crmTags |-> {}]]

BfReport(b) ==
  IF b.pc = "done" /\ b.statusCode = 200
  THEN [kind |-> IF b.dryRun THEN "dry" ELSE "live",
        sessions |-> b.sessions,
        synced |-> {b.details[k].sessionId : k \in {j \in 1..Len(b.details) :
                                                     b.details[j].status \in {"synced", "would_sync"}}},
        skipped |-> {b.details[k].sessionId : k \in {j \in 1..Len(b.details) :
                                                      b.details[j].status = "skipped"}},
        errors |-> Len(b.errors),
        before |-> b.before]
  ELSE b.prev

BfIdle ==
  [pc |-> "idle", body |-> [kind |-> "missing", dryRun |-> "absent", limit |-> 0],
   dryRun |-> TRUE, sessions |-> <<>>, idx |-> 0,
   processed |-> 0, synced |-> 0, skipped |-> 0, errors |-> <<>>, details |-> <<>>,
   order |-> NoOrder, existing |-> FALSE, contactId |-> 0,
   tags |-> <<>>, tagIdx |-> 0, tagErrors |-> {}, statusCode |-> 0,
   crmCalls |-> 0, crmWrites |-> 0, stripeCalls |-> 0, exact |-> FALSE,
   before |-> [contacts |-> <<>>, crmTags |-> {}], known |-> FALSE, failed |-> {}, guarded |-> {},
   written |-> {}, missing |-> "none", retryTick |-> 0, faults0 |-> 0, prev |-> NoReport]

\* exports.handler up to the start of the try block
BfStart ==
  /\ bf.pc = "idle"
  /\ \E method \in {"POST", "GET"}, adminKey \in AdminKeys, authHeader \in AuthHeaders :
       LET entered == [BfIdle EXCEPT !.before = [contacts |-> contacts, crmTags |-> crmTags],
                                     !.prev = bf.prev, !.faults0 = faults.n,
                                     !.exact = adminKey = "k1" /\ authHeader = "Bearer k1"]
       IN IF method # "POST" THEN bf' = [entered EXCEPT !.pc = "done", !.statusCode = 405]
          ELSE IF ~Authorized(adminKey, authHeader)
               THEN bf' = [entered EXCEPT !.pc = "done", !.statusCode = 401]
          ELSE \E keapToken \in BOOLEAN :
            IF ~keapToken
            THEN bf' = [entered EXCEPT !.pc = "done", !.statusCode = 500, !.missing = "keap"]
            ELSE \E body \in BfBodies :
              LET start == [entered EXCEPT !.body = body]
              IN IF OptionsThrow(body) THEN bf' = [start EXCEPT !.pc = "crashed"]
                 ELSE \E stripeKey \in BOOLEAN :
                   bf' = IF ~stripeKey
                         THEN [start EXCEPT !.pc = "done", !.statusCode = 500,
                                            !.dryRun = DryRunOf(body), !.missing = "stripe"]
                         ELSE [start EXCEPT !.pc = "list", !.dryRun = DryRunOf(body)]
  /\ invocations' = invocations + 1
  /\ UNCHANGED <<chk, go, contacts, crmTags, wh, ut, synced, faults>>

\* the for loop moves on to the next listed session, or the handler returns
\* the report with 200
BfNextSession(b) ==
  IF b.idx < Len(b.sessions)
  THEN [b EXCEPT !.pc = "retrieve", !.idx = @ + 1]
  ELSE [b EXCEPT !.pc = "done", !.statusCode = 200]

\* faulty variant: a session's failure ends the run with 500
BfSessionError_Aborts(b) ==
  [b EXCEPT !.errors = Append(@, b.sessions[b.idx]), !.pc = "done", !.statusCode = 500]

\* catch (sessionError): results.errors.push({sessionId, error})
BfSessionError(b) ==
  BfNextSession([b EXCEPT !.errors = Append(@, b.sessions[b.idx])])

\* faulty variant: a skipped session is counted but gets no detail record
BfSkip_TalliesOnly(b) == BfNextSession([b EXCEPT !.skipped = @ + 1])

\* results.skipped++; results.details.push({sessionId, status: 'skipped'}); continue
BfSkip(b) ==
  BfNextSession([b EXCEPT !.skipped = @ + 1,
                          !.details = Append(@, [sessionId |-> b.sessions[b.idx], status |-> "skipped"])])

BfWouldSync(b) ==
  BfNextSession([b EXCEPT !.synced = @ + 1,
                          !.details = Append(@, [sessionId |-> b.sessions[b.idx], status |-> "would_sync"])])

BfSynced(b) ==
  BfNextSession([b EXCEPT !.synced = @ + 1,
                          !.details = Append(@, [sessionId |-> b.sessions[b.idx], status |-> "synced"])])

\* stripe.checkout.sessions.list
BfList ==
  /\ bf.pc = "list"
  /\ \E r \in {"ok", "err"} :
       /\ Answers(r)
       /\ Charge(r)
       /\ LET b == [bf EXCEPT !.stripeCalls = @ + 1]
          IN bf' = IF r # "ok" THEN [b EXCEPT !.pc = "done", !.statusCode = 500]
                   ELSE BfNextSession([b EXCEPT !.sessions = ListSessions(LimitOf(bf.body)),
                                                !.body = BfIdle.body])
  /\ UNCHANGED <<chk, go, contacts, crmTags, wh, ut, synced, invocations>>

\* results.processed++, stripe.checkout.sessions.retrieve, the email check
BfRetrieve ==
  /\ bf.pc = "retrieve"
  /\ \E r \in {"ok", "err"} :
       /\ Answers(r)
       /\ Charge(r)
       /\ LET b == [bf EXCEPT !.processed = @ + 1, !.stripeCalls = @ + 1]
              s == b.sessions[b.idx]
          IN bf' = IF r # "ok" THEN BfSessionError([b EXCEPT !.failed = @ \cup {s}])
                   ELSE IF SessEmail(s) = NoEmail THEN BfSkip(b)
                   ELSE [b EXCEPT !.pc = "guard"]
  /\ UNCHANGED <<chk, go, contacts, crmTags, wh, ut, synced, invocations>>

\* findKeapContact: the contact or null; 429 is retried, any other non-2xx
\* answer returns null
FoundContact(r, email) ==
  IF r = "ok" /\ ContactsByEmail(email) # {} THEN FirstContact(email) ELSE 0

\* faulty variant: the dry-run flag is not consulted
BfAfterGuard_IgnoresDryRun(b, s) ==
  [b EXCEPT !.pc = "syncFind", !.order = BackfillOrder(s)]

\* a session that passed the guard: recorded as would_sync in a dry run,
\* handed to syncToKeap otherwise
BfAfterGuard(b, s) ==
  IF b.dryRun THEN BfWouldSync([b EXCEPT !.order = BackfillOrder(s)])
  ELSE [b EXCEPT !.pc = "syncFind", !.order = BackfillOrder(s)]

\* faulty variant: a call answered 429 gives up and fails the session
BfRetry_GivesUp(b) == BfSessionError(b)

\* findKeapContact / getOrCreateTag answered 429: after the wait the function
\* calls itself, so the run is at the same request again
BfRetry(b) == b

\* the idempotency guard, then dry run or live
BfGuard ==
  /\ bf.pc = "guard"
  /\ \E r \in Resp :
       /\ Answers(r)
       /\ Charge(r)
       /\ LET s == bf.sessions[bf.idx]
              b == [bf EXCEPT !.crmCalls = @ + 1,
                              !.guarded = IF \E c \in ContactsByEmail(SessEmail(s)) :
                                               hasExistingOrderData(contacts[c])
                                          THEN @ \cup {s} ELSE @]
              existingContact == FoundContact(r, SessEmail(s))
          IN bf' = IF r = "r429" THEN BfRetry(b)
                   ELSE IF existingContact # 0 /\ hasExistingOrderData(contacts[existingContact])
                        THEN BfSkip(b)
                   ELSE BfAfterGuard(b, s)
  /\ UNCHANGED <<chk, go, contacts, crmTags, wh, ut, synced, invocations>>

\* syncToKeap: search for the existing contact
BfSyncFind ==
  /\ bf.pc = "syncFind"
  /\ \E r \in Resp :
       /\ Answers(r)
       /\ Charge(r)
       /\ LET b == [bf EXCEPT !.crmCalls = @ + 1]
              existingContact == FoundContact(r, b.order.email)
          IN bf' = IF r = "r429" THEN BfRetry(b)
                   ELSE [b EXCEPT !.pc = "syncWrite", !.existing = existingContact # 0,
                                  !.contactId = existingContact,
                                  !.known = ContactsByEmail(b.order.email) # {}]
  /\ UNCHANGED <<chk, go, contacts, crmTags, wh, ut, synced, invocations>>

\* syncToKeap: contact update (PATCH) or create (POST)
BfSyncWrite ==
  /\ bf.pc = "syncWrite"
  /\ \E r \in Resp :
       /\ Answers(r)
       /\ Charge(r)
       /\ LET b == [bf EXCEPT !.crmCalls = @ + 1, !.crmWrites = @ + 1]
              payload == BackfillPayload(b.order)
          IN IF r # "ok"
             THEN /\ bf' = BfSessionError([b EXCEPT !.failed = @ \cup {b.sessions[b.idx]}])
                  /\ UNCHANGED contacts
             ELSE /\ contacts' =
                       IF b.existing
                       THEN [contacts EXCEPT ![b.contactId] = PatchContact(@, payload)]
                       ELSE Append(contacts, NewContact(payload))
                  /\ bf' = [b EXCEPT !.pc = "tagSearch",
                                     !.written = @ \cup {b.sessions[b.idx]},
                                     !.contactId = IF b.existing THEN @ ELSE Len(contacts) + 1,
                                     !.tags = BackfillTags(b.order),
                                     !.tagIdx = 1,
                                     !.tagErrors = {}]
  /\ UNCHANGED <<chk, go, crmTags, wh, ut, synced, invocations>>

\* the tag loop moves on; after the last tag syncToKeap returns and the
\* session is tallied as synced
BfNextTag(b) ==
  IF b.tagIdx < Len(b.tags)
  THEN [b EXCEPT !.pc = "tagSearch", !.tagIdx = @ + 1]
  ELSE BfSynced(b)

\* catch (tagError): log and continue with the next tag
BfTagFailed(b) == BfNextTag([b EXCEPT !.tagErrors = @ \cup {b.tags[b.tagIdx]}])

\* getOrCreateTag: tag search by name, 429 retried
BfTagSearch ==
  /\ bf.pc = "tagSearch"
  /\ \E r \in Resp :
       /\ Answers(r)
       /\ Charge(r)
       /\ LET b == [bf EXCEPT !.crmCalls = @ + 1]
          IN bf' = IF r = "r429" THEN BfRetry(b)
                   ELSE IF r # "ok" THEN BfTagFailed(b)
                   ELSE IF b.tags[b.tagIdx] \in crmTags THEN [b EXCEPT !.pc = "tagApply"]
                   ELSE [b EXCEPT !.pc = "tagCreate"]
  /\ UNCHANGED <<chk, go, contacts, crmTags, wh, ut, synced, invocations>>

\* getOrCreateTag: tag create
BfTagCreate ==
  /\ bf.pc = "tagCreate"
  /\ \E r \in Resp :
       /\ Answers(r)
       /\ Charge(r)
       /\ LET b == [bf EXCEPT !.crmCalls = @ + 1, !.crmWrites = @ + 1]
          IN /\ bf' = IF r # "ok" THEN BfTagFailed(b) ELSE [b EXCEPT !.pc = "tagApply"]
             /\ crmTags' = IF r = "ok" THEN crmTags \cup {b.tags[b.tagIdx]} ELSE crmTags
  /\ UNCHANGED <<chk, go, contacts, wh, ut, synced, invocations>>

\* applyTagToContact: throws on a non-2xx answer other than 429
BfTagApply ==
  /\ bf.pc = "tagApply"
  /\ \E r \in Resp :
       /\ Answers(r)
       /\ Charge(r)
       /\ LET b == [bf EXCEPT !.crmCalls = @ + 1, !.crmWrites = @ + 1]
          IN /\ bf' = IF r = "err" THEN BfTagFailed(b) ELSE BfNextTag(b)
             /\ contacts' = IF r = "ok"
                            THEN [contacts EXCEPT ![b.contactId].tags = @ \cup {b.tags[b.tagIdx]}]
                            ELSE contacts
  /\ UNCHANGED <<chk, go, crmTags, wh, ut, synced, invocations>>

\* the calls that retry on 429
BfRetryPcs == {"guard", "syncFind", "tagSearch"}

\* a 429 answer to a retrying call that is not counted in faults: the CRM may
\* go on answering 429 for as long as it likes, and each time the same
\* request is issued again (retryTick alternates with each such re-issue, the
\* call counters do not count them)
BfRateLimited ==
  /\ bf.pc \in BfRetryPcs
  /\ bf' = [BfRetry(bf) EXCEPT !.retryTick = 1 - @]
  /\ faults' = [faults EXCEPT !.last = "r429"]
  /\ UNCHANGED <<chk, go, contacts, crmTags, wh, ut, synced, invocations>>

\* the response is delivered (or the invocation has died) and the invocation ends
BfReturn ==
  /\ bf.pc \in {"done", "crashed"}
  /\ bf' = BfIdle
  /\ UNCHANGED <<chk, go, contacts, crmTags, wh, ut, synced, faults, invocations>>

\* the same, the run's report being remembered for the comparison of one
\* run with the next
BfReturnReport ==
  /\ bf.pc \in {"done", "crashed"}
  /\ bf' = [BfIdle EXCEPT !.prev = BfReport(bf)]
  /\ UNCHANGED <<chk, go, contacts, crmTags, wh, ut, synced, faults, invocations>>

\* ------------------------------------------------------ update-tracking.js
UnknownEmail == "zz"    \* an email no checkout session carries

\* JSON.parse(event.body): no body at all, or an object whose fields may be
\* missing ("" stands for a missing or empty field)
UtBodies ==
  {[kind |-> "missing", email |-> "", trackingNumber |-> "", shipmentType |-> ""]}
  \cup {[kind |-> "object", email |-> e, trackingNumber |-> n, shipmentType |-> y] :
          e \in {"", "a", UnknownEmail}, n \in {"", "T1"}, y \in {"", "cards", "book", "other"}}

UtIdle ==
  [pc |-> "idle", body |-> [kind |-> "missing", email |-> "", trackingNumber |-> "", shipmentType |-> ""],
   contactId |-> 0, statusCode |-> 0, error |-> "none", known |-> FALSE,
   crmCalls |-> 0, crmWrites |-> 0, exact |-> FALSE, missing |-> "none",
   updated |-> FALSE, shipped |-> "none", awaiting |-> "none"]

\* exports.handler up to the first CRM request of updateTrackingInKeap
UtStart ==
  /\ ut.pc = "idle"
  /\ \E method \in {"POST", "GET"}, adminKey \in AdminKeys, authHeader \in AuthHeaders :
       LET entered == [UtIdle EXCEPT !.exact = adminKey = "k1" /\ authHeader = "Bearer k1"]
       IN IF method # "POST" THEN ut' = [entered EXCEPT !.pc = "done", !.statusCode = 405]
          ELSE IF ~Authorized(adminKey, authHeader)
               THEN ut' = [entered EXCEPT !.pc = "done", !.statusCode = 401]
          ELSE \E body \in UtBodies :
            LET start == [entered EXCEPT !.body = body, !.known = ContactsByEmail(body.email) # {}]
            IN IF body.kind = "missing"
               THEN ut' = [start EXCEPT !.pc = "done", !.statusCode = 500, !.error = "SyntaxError"]
               ELSE IF body.email = "" \/ body.trackingNumber = "" \/ body.shipmentType = ""
                    THEN ut' = [start EXCEPT !.pc = "done", !.statusCode = 400]
               ELSE IF body.shipmentType \notin {"cards", "book"}
                    THEN ut' = [start EXCEPT !.pc = "done", !.statusCode = 400]
               ELSE \E keapToken \in BOOLEAN :
                 ut' = IF ~keapToken
                       THEN [start EXCEPT !.pc = "done", !.statusCode = 500,
                                          !.error = "not configured", !.missing = "keap"]
                       ELSE [start EXCEPT !.pc = "search"]
  /\ invocations' = invocations + 1
  /\ UNCHANGED <<chk, go, contacts, crmTags, wh, bf, synced, faults>>

\* faulty variant: the error is logged and the tag operations still run
UtThrow_Swallowed(u, message) == [u EXCEPT !.pc = "shippedSearch", !.error = message]

\* a throw out of updateTrackingInKeap: the handler answers 500 with the message
UtThrow(u, message) == [u EXCEPT !.pc = "done", !.statusCode = 500, !.error = message]

\* updateTrackingInKeap: find the contact by email
UtSearch ==
  /\ ut.pc = "search"
  /\ \E r \in Resp :
       /\ Answers(r)
       /\ Charge(r)
       /\ LET u == [ut EXCEPT !.crmCalls = @ + 1]
          IN ut' = IF r # "ok" THEN UtThrow(u, "Contact search failed")
                   ELSE IF ContactsByEmail(u.body.email) = {} THEN UtThrow(u, "No contact found")
                   ELSE [u EXCEPT !.pc = "update", !.contactId = FirstContact(u.body.email)]
  /\ UNCHANGED <<chk, go, contacts, crmTags, wh, bf, synced, invocations>>

\* the custom fields written for the shipment type
TrackingFields(shipmentType, trackingNumber) ==
  IF shipmentType = "cards"
  THEN (CARDS_TRACKING_NUMBER :> <<trackingNumber>>)
  ELSE (BOOK_TRACKING_NUMBER :> <<trackingNumber>>)

\* updateTrackingInKeap: PATCH the tracking fields
UtUpdate ==
  /\ ut.pc = "update"
  /\ \E r \in Resp :
       /\ Answers(r)
       /\ Charge(r)
       /\ LET u == [ut EXCEPT !.crmCalls = @ + 1, !.crmWrites = @ + 1]
              payload == [email |-> u.body.email,
                          cf |-> TrackingFields(u.body.shipmentType, u.body.trackingNumber),
                          optIn |-> "absent", addr |-> "absent"]
          IN /\ ut' = IF r # "ok" THEN UtThrow(u, "Contact update failed")
                      ELSE [u EXCEPT !.pc = "shippedSearch", !.updated = TRUE]
             /\ contacts' = IF r = "ok"
                            THEN [contacts EXCEPT ![u.contactId] = PatchContact(@, payload)]
                            ELSE contacts
  /\ UNCHANGED <<chk, go, crmTags, wh, bf, synced, invocations>>

shippedTagName(shipmentType) == IF shipmentType = "cards" THEN "Cards Shipped" ELSE "Book Shipped"

awaitingTagName(shipmentType) ==
  IF shipmentType = "cards" THEN "Awaiting Shipment" ELSE "Pending Book Shipment"

\* faulty variant: a failure of the shipped tag is thrown out of updateTrackingInKeap
UtShippedCaught_Rethrows(u) ==
  [u EXCEPT !.pc = "done", !.statusCode = 500, !.error = "Tag failed", !.shipped = "failed"]

\* catch (e) around the shipped tag: logged, the awaiting tag comes next
UtShippedCaught(u) == [u EXCEPT !.pc = "awaitingSearch", !.shipped = "failed"]

\* getOrCreateTag(shippedTagName): tag search
UtShippedSearch ==
  /\ ut.pc = "shippedSearch"
  /\ \E r \in Resp :
       /\ Answers(r)
       /\ Charge(r)
       /\ LET u == [ut EXCEPT !.crmCalls = @ + 1]
          IN ut' = IF r # "ok" THEN UtShippedCaught(u)
                   ELSE [u EXCEPT !.pc = IF shippedTagName(ut.body.shipmentType) \in crmTags
                                         THEN "shippedApply"
                                         ELSE "shippedCreate"]
  /\ UNCHANGED <<chk, go, contacts, crmTags, wh, bf, synced, invocations>>

\* getOrCreateTag(shippedTagName): tag create
UtShippedCreate ==
  /\ ut.pc = "shippedCreate"
  /\ \E r \in Resp :
       /\ Answers(r)
       /\ Charge(r)
       /\ LET u == [ut EXCEPT !.crmCalls = @ + 1, !.crmWrites = @ + 1]
          IN ut' = IF r # "ok" THEN UtShippedCaught(u) ELSE [u EXCEPT !.pc = "shippedApply"]
       /\ crmTags' = IF r = "ok" THEN crmTags \cup {shippedTagName(ut.body.shipmentType)} ELSE crmTags
  /\ UNCHANGED <<chk, go, contacts, wh, bf, synced, invocations>>

\* applyTagToContact(shippedTagId)
UtShippedApply ==
  /\ ut.pc = "shippedApply"
  /\ \E r \in Resp :
       /\ Answers(r)
       /\ Charge(r)
       /\ LET u == [ut EXCEPT !.crmCalls = @ + 1, !.crmWrites = @ + 1]
          IN ut' = IF r # "ok" THEN UtShippedCaught(u)
                   ELSE [u EXCEPT !.pc = "awaitingSearch", !.shipped = "ok"]
       /\ contacts' = IF r = "ok"
                      THEN [contacts EXCEPT ![ut.contactId].tags =
                              @ \cup {shippedTagName(ut.body.shipmentType)}]
                      ELSE contacts
  /\ UNCHANGED <<chk, go, crmTags, wh, bf, synced, invocations>>

\* getTagId(awaitingTagName): null on a non-2xx answer or when no tag has the name
UtAwaitingSearch ==
  /\ ut.pc = "awaitingSearch"
  /\ \E r \in Resp :
       /\ Answers(r)
       /\ Charge(r)
       /\ LET u == [ut EXCEPT !.crmCalls = @ + 1]
          IN ut' = IF r = "ok" /\ awaitingTagName(u.body.shipmentType) \in crmTags
                   THEN [u EXCEPT !.pc = "awaitingRemove"]
                   ELSE [u EXCEPT !.pc = "done", !.statusCode = 200,
                                  !.awaiting = IF r = "ok" THEN "noTag" ELSE "failed"]
  /\ UNCHANGED <<chk, go, contacts, crmTags, wh, bf, synced, invocations>>

\* removeTagFromContact: DELETE; the failure is logged
UtAwaitingRemove ==
  /\ ut.pc = "awaitingRemove"
  /\ \E r \in Resp :
       /\ Answers(r)
       /\ Charge(r)
       /\ ut' = [ut EXCEPT !.crmCalls = @ + 1, !.crmWrites = @ + 1,
                           !.pc = "done", !.statusCode = 200,
                           !.awaiting = IF r = "ok" THEN "ok" ELSE "failed"]
       /\ contacts' = IF r = "ok"
                      THEN [contacts EXCEPT ![ut.contactId].tags =
                              @ \ {awaitingTagName(ut.body.shipmentType)}]
                      ELSE contacts
  /\ UNCHANGED <<chk, go, crmTags, wh, bf, synced, invocations>>

\* the response is delivered and the invocation ends
UtReturn ==
  /\ ut.pc = "done"
  /\ ut' = UtIdle
  /\ UNCHANGED <<chk, go, contacts, crmTags, wh, bf, synced, faults, invocations>>

\* ---------------------------------------------------- check-fulfillment.js
\* !!(field?.content)
Truthy(content) == content # <<>>

\* field?.content || null
OrNull(content) ==
  IF content # <<>> THEN [null |-> FALSE, content |-> content] ELSE [null |-> TRUE, content |-> <<>>]

NoResult ==
  [found |-> FALSE, cardsShipped |-> FALSE, bookShipped |-> FALSE,
   cardsTrackingNumber |-> OrNull(<<>>), bookTrackingNumber |-> OrNull(<<>>)]

\* faulty variant: a leg counts as shipped as soon as the contact is found
ChkResult_FoundMeansShipped(c) ==
  [found |-> TRUE, cardsShipped |-> TRUE, bookShipped |-> TRUE,
   cardsTrackingNumber |-> OrNull(c.cf[CARDS_TRACKING_NUMBER]),
   bookTrackingNumber |-> OrNull(c.cf[BOOK_TRACKING_NUMBER])]

\* the response body for the first matching contact
ChkResult(c) ==
  [found |-> TRUE,
   cardsShipped |-> Truthy(c.cf[CARDS_TRACKING_NUMBER]),
   bookShipped |-> Truthy(c.cf[BOOK_TRACKING_NUMBER]),
   cardsTrackingNumber |-> OrNull(c.cf[CARDS_TRACKING_NUMBER]),
   bookTrackingNumber |-> OrNull(c.cf[BOOK_TRACKING_NUMBER])]

ChkIdle ==
  [pc |-> "idle", email |-> "", statusCode |-> 0, exact |-> FALSE, result |-> NoResult,
   crmCalls |-> 0, missing |-> "none"]

\* exports.handler up to the contact search
ChkStart ==
  /\ chk.pc = "idle"
  /\ \E method \in {"GET", "POST"}, adminKey \in AdminKeys, authHeader \in AuthHeaders :
       LET entered == [ChkIdle EXCEPT !.exact = adminKey = "k1" /\ authHeader = "Bearer k1"]
       IN IF method # "GET" THEN chk' = [entered EXCEPT !.pc = "done", !.statusCode = 405]
          ELSE IF ~Authorized(adminKey, authHeader)
               THEN chk' = [entered EXCEPT !.pc = "done", !.statusCode = 401]
          ELSE \E email \in {"", "a", UnknownEmail} :
            IF email = "" THEN chk' = [entered EXCEPT !.pc = "done", !.statusCode = 400]
            ELSE \E keapToken \in BOOLEAN :
              chk' = IF ~keapToken
                     THEN [entered EXCEPT !.pc = "done", !.statusCode = 500, !.email = email,
                                          !.missing = "keap"]
                     ELSE [entered EXCEPT !.pc = "search", !.email = email]
  /\ invocations' = invocations + 1
  /\ UNCHANGED <<contacts, crmTags, wh, bf, ut, go, synced, faults>>

\* the contact search and the response built from its answer
ChkSearch ==
  /\ chk.pc = "search"
  /\ \E r \in Resp :
       /\ Answers(r)
       /\ Charge(r)
       /\ LET k == [chk EXCEPT !.crmCalls = @ + 1, !.pc = "done"]
          IN chk' = IF r = "r429" THEN [k EXCEPT !.statusCode = 429]
                    ELSE IF r # "ok" THEN [k EXCEPT !.statusCode = 500]
                    ELSE IF ContactsByEmail(k.email) = {} THEN [k EXCEPT !.statusCode = 200]
                    ELSE [k EXCEPT !.statusCode = 200,
                                   !.result = ChkResult(contacts[FirstContact(k.email)])]
  /\ UNCHANGED <<contacts, crmTags, wh, bf, ut, go, synced, invocations>>

\* the response is delivered and the invocation ends
ChkReturn ==
  /\ chk.pc = "done"
  /\ chk' = ChkIdle
  /\ UNCHANGED <<contacts, crmTags, wh, bf, ut, go, synced, faults, invocations>>

\* ------------------------------------------------------------ get-orders.js
\* The repository holds two get-orders handlers: get-orders.js, which reads
\* each order's fulfilment from the CRM, and the one in get-inventory.js, which
\* leaves the fulfilment flags at their initial values.
GoVariants == {"get-orders", "get-inventory"}

\* getKeapFulfillmentStatus: the shipped flags of the first matching contact
KeapStatus(email) ==
  IF ContactsByEmail(email) = {} THEN [cardsShipped |-> FALSE, bookShipped |-> FALSE]
  ELSE [cardsShipped |-> Truthy(contacts[FirstContact(email)].cf[CARDS_TRACKING_NUMBER]),
        bookShipped |-> Truthy(contacts[FirstContact(email)].cf[BOOK_TRACKING_NUMBER])]

\* let cardsShipped = false; let bookShipped = false
NotShipped == [cardsShipped |-> FALSE, bookShipped |-> FALSE]

\* the overall fulfilment status of an order
fulfillmentStatus(hasPreOrder, cardsShipped, bookShipped) ==
  IF hasPreOrder
  THEN (IF cardsShipped /\ bookShipped THEN "fulfilled"
        ELSE IF cardsShipped THEN "partial"
        ELSE "pending")
  ELSE (IF cardsShipped THEN "fulfilled" ELSE "pending")

GoIdle ==
  [pc |-> "idle", variant |-> "get-orders", keapToken |-> FALSE, sessions |-> <<>>, idx |-> 0,
   orders |-> <<>>, statusCode |-> 0, exact |-> FALSE, crmCalls |-> 0, stripeCalls |-> 0,
   missing |-> "none"]

\* exports.handler up to stripe.checkout.sessions.list
GoStart ==
  /\ go.pc = "idle"
  /\ \E variant \in GoVariants, method \in {"GET", "POST"}, adminKey \in AdminKeys,
        authHeader \in AuthHeaders :
       LET entered == [GoIdle EXCEPT !.variant = variant,
                                     !.exact = adminKey = "k1" /\ authHeader = "Bearer k1"]
       IN IF method # "GET" THEN go' = [entered EXCEPT !.pc = "done", !.statusCode = 405]
          ELSE IF ~Authorized(adminKey, authHeader)
               THEN go' = [entered EXCEPT !.pc = "done", !.statusCode = 401]
          ELSE \E stripeKey \in BOOLEAN :
            IF ~stripeKey
            THEN go' = [entered EXCEPT !.pc = "done", !.statusCode = 500, !.missing = "stripe"]
            ELSE \E keapToken \in BOOLEAN :
              go' = [entered EXCEPT !.pc = "list", !.keapToken = keapToken,
                                    !.missing = IF keapToken THEN "none" ELSE "keap"]
  /\ invocations' = invocations + 1
  /\ UNCHANGED <<contacts, crmTags, wh, bf, ut, chk, synced, faults>>

\* the for loop moves on to the next session, or the handler returns the orders
GoNextSession(g) ==
  IF g.idx < Len(g.sessions)
  THEN [g EXCEPT !.pc = "retrieve", !.idx = @ + 1]
  ELSE [g EXCEPT !.pc = "done", !.statusCode = 200]

\* orders.push({..., hasPreOrder, fulfillment: {status, cardsShipped, bookShipped}})
GoPush(g, shipped) ==
  LET s == g.sessions[g.idx]
      hasPreOrder == MetaHasPreOrderInTry(s)
  IN GoNextSession([g EXCEPT !.orders = Append(@,
       [id |-> s, email |-> SessEmail(s), hasPreOrder |-> hasPreOrder,
        status |-> fulfillmentStatus(hasPreOrder, shipped.cardsShipped, shipped.bookShipped),
        cardsShipped |-> shipped.cardsShipped, bookShipped |-> shipped.bookShipped])])

\* stripe.checkout.sessions.list({status: 'complete', limit: 100})
GoList ==
  /\ go.pc = "list"
  /\ \E r \in {"ok", "err"} :
       /\ Answers(r)
       /\ Charge(r)
       /\ LET g == [go EXCEPT !.stripeCalls = @ + 1]
          IN go' = IF r # "ok" THEN [g EXCEPT !.pc = "done", !.statusCode = 500]
                   ELSE GoNextSession([g EXCEPT !.sessions = ListSessions(DefaultLimit)])
  /\ UNCHANGED <<contacts, crmTags, wh, bf, ut, chk, synced, invocations>>

\* stripe.checkout.sessions.retrieve: a failure ends get-orders.js with 500 and
\* makes the handler of get-inventory.js leave the session out
GoRetrieve ==
  /\ go.pc = "retrieve"
  /\ \E r \in {"ok", "err"} :
       /\ Answers(r)
       /\ Charge(r)
       /\ LET g == [go EXCEPT !.stripeCalls = @ + 1]
              s == g.sessions[g.idx]
          IN go' = IF r # "ok"
                   THEN (IF g.variant = "get-orders" THEN [g EXCEPT !.pc = "done", !.statusCode = 500]
                         ELSE GoNextSession(g))
                   ELSE IF g.variant = "get-orders" /\ g.keapToken /\ SessEmail(s) # NoEmail
                        THEN [g EXCEPT !.pc = "status"]
                   ELSE GoPush(g, NotShipped)
  /\ UNCHANGED <<contacts, crmTags, wh, bf, ut, chk, synced, invocations>>

\* faulty variant: a failed fulfilment lookup ends the listing with 500
GoStatusFailed_Rethrows(g) == [g EXCEPT !.pc = "done", !.statusCode = 500]

\* catch (e) around getKeapFulfillmentStatus: the failure is logged, the flags
\* keep their initial values and the order is pushed
GoStatusFailed(g) == GoPush(g, NotShipped)

\* getKeapFulfillmentStatus: throws on a non-2xx answer to the contact search
GoStatus ==
  /\ go.pc = "status"
  /\ \E r \in Resp :
       /\ Answers(r)
       /\ Charge(r)
       /\ LET g == [go EXCEPT !.crmCalls = @ + 1]
          IN go' = IF r # "ok" THEN GoStatusFailed(g)
                   ELSE GoPush(g, KeapStatus(SessEmail(g.sessions[g.idx])))
  /\ UNCHANGED <<contacts, crmTags, wh, bf, ut, chk, synced, invocations>>

\* the response is delivered and the invocation ends
GoReturn ==
  /\ go.pc = "done"
  /\ go' = GoIdle
  /\ UNCHANGED <<contacts, crmTags, wh, bf, ut, chk, synced, faults, invocations>>

Emails == {SessEmail(s) : s \in SessionIds}

Init ==
  /\ contacts = <<>>
  /\ crmTags = {}
  /\ wh = [i \in WhIds |-> WhIdle]
  /\ bf = BfIdle
  /\ ut = UtIdle
  /\ chk = ChkIdle
  /\ go = GoIdle
  /\ synced = [e \in Emails |-> <<>>]
  /\ faults = [n |-> 0, last |-> "ok"]
  /\ invocations = 0

\* no invocation is in progress
Quiet ==
  /\ bf.pc = "idle" /\ ut.pc = "idle" /\ chk.pc = "idle" /\ go.pc = "idle"
  /\ \A i \in WhIds : wh[i].pc = "idle"

\* a new invocation may start
Begin == Quiet /\ invocations < MaxInvocations

\* webhook deliveries handled one at a time
WebhookSteps ==
  \/ WhRetrieve(1)
  \/ WhSearch(1)
  \/ WhDetail(1)
  \/ WhWrite(1)
  \/ WhTagSearch(1)
  \/ WhTagCreate(1)
  \/ WhTagApply(1)
  \/ WhReturn(1)

WebhookNext ==
  \/ Begin /\ WhReceive(1)
  \/ WebhookSteps

SpecWebhook == Init /\ [][WebhookNext]_vars

\* the steps of a backfill run in which a request is answered and the run
\* moves on: every awaited request is answered in the end, and a retrying
\* call is in the end answered with something other than 429
BackfillSteps ==
  \/ BfList
  \/ BfRetrieve
  \/ BfGuard
  \/ BfSyncFind
  \/ BfSyncWrite
  \/ BfTagSearch
  \/ BfTagCreate
  \/ BfTagApply
  \/ BfReturn

\* backfill runs one after the other, each run's report remembered
BackfillRunsNext ==
  \/ Begin /\ BfStart
  \/ BfList
  \/ BfRetrieve
  \/ BfGuard
  \/ BfSyncFind
  \/ BfSyncWrite
  \/ BfTagSearch
  \/ BfTagCreate
  \/ BfTagApply
  \/ BfReturnReport

SpecBackfillRuns == Init /\ [][BackfillRunsNext]_vars

\* backfill runs against a CRM that may answer the retrying calls with 429
\* any number of times
BackfillRetryNext ==
  \/ Begin /\ BfStart
  \/ BackfillSteps
  \/ BfRateLimited

SpecBackfillFair == Init /\ [][BackfillRetryNext]_vars /\ WF_vars(BackfillSteps)

\* backfill runs handled one at a time
BackfillNext ==
  \/ Begin /\ BfStart
  \/ BfList
  \/ BfRetrieve
  \/ BfGuard
  \/ BfSyncFind
  \/ BfSyncWrite
  \/ BfTagSearch
  \/ BfTagCreate
  \/ BfTagApply
  \/ BfReturn

\* tracking updates handled one at a time
TrackingSteps ==
  \/ UtSearch
  \/ UtUpdate
  \/ UtShippedSearch
  \/ UtShippedCreate
  \/ UtShippedApply
  \/ UtAwaitingSearch
  \/ UtAwaitingRemove
  \/ UtReturn

TrackingNext ==
  \/ Begin /\ UtStart
  \/ TrackingSteps

\* fulfilment checks handled one at a time
CheckSteps ==
  \/ ChkSearch
  \/ ChkReturn

CheckNext ==
  \/ Begin /\ ChkStart
  \/ CheckSteps

\* order listings handled one at a time
OrdersSteps ==
  \/ GoList
  \/ GoRetrieve
  \/ GoStatus
  \/ GoReturn

OrdersNext ==
  \/ Begin /\ GoStart
  \/ OrdersSteps

\* every handler, one invocation at a time
Next == WebhookNext \/ BackfillNext \/ TrackingNext \/ CheckNext \/ OrdersNext

Spec == Init /\ [][Next]_vars

\* the order-to-shipment life of a contact: webhook syncs, tracking updates,
\* fulfilment checks and order listings, one invocation at a time, with both
\* providers answering every request successfully (ProvidersUp)
BeginOp == Quiet /\ invocations < MaxOps

\* both providers answer every request of these behaviours successfully
ProvidersUp == faults'.n = 0

FulfillmentNext ==
  \/ BeginOp /\ WhReceive(1)
  \/ BeginOp /\ UtStart
  \/ BeginOp /\ ChkStart
  \/ BeginOp /\ GoStart
  \/ WebhookSteps /\ ProvidersUp
  \/ TrackingSteps /\ ProvidersUp
  \/ CheckSteps /\ ProvidersUp
  \/ OrdersSteps /\ ProvidersUp

SpecFulfillment == Init /\ [][FulfillmentNext]_vars

\* the CRM after the webhook has synced the first session into an empty CRM
\* and returned (a state of SpecWebhook): the contact it created, carrying the
\* order's tags
SyncedFirstOrder ==
  LET order == WebhookOrder(1)
      tags == WebhookTags(order, FALSE)
      payload == WebhookPayload(order, <<Entry(order.paymentId, order.amountPaid)>>,
                                order.amountPaid)
  IN [contact |-> [NewContact(payload) EXCEPT !.tags = {tags[k] : k \in 1..Len(tags)}],
      crmTags |-> {tags[k] : k \in 1..Len(tags)},
      email |-> order.email, paymentId |-> order.paymentId]

InitConcurrent ==
  /\ contacts = <<SyncedFirstOrder.contact>>
  /\ crmTags = SyncedFirstOrder.crmTags
  /\ wh = [i \in WhIds |-> WhIdle]
  /\ bf = BfIdle
  /\ ut = UtIdle
  /\ chk = ChkIdle
  /\ go = GoIdle
  /\ synced = [e \in Emails |-> IF e = SyncedFirstOrder.email
                                 THEN <<SyncedFirstOrder.paymentId>> ELSE <<>>]
  /\ faults = [n |-> 0, last |-> "ok"]
  /\ invocations = 1

\* the CRM after the first order was synced and its cards were shipped
\* (update-tracking for the cards leg, every call answered; a state of
\* SpecFulfillment)
ShippedFirstOrder ==
  LET c == SyncedFirstOrder.contact
      payload == [email |-> c.email, cf |-> TrackingFields("cards", "T1"),
                  optIn |-> "absent", addr |-> "absent"]
  IN [contact |-> [PatchContact(c, payload) EXCEPT
                     !.tags = (@ \cup {shippedTagName("cards")}) \ {awaitingTagName("cards")}],
      crmTags |-> SyncedFirstOrder.crmTags \cup {shippedTagName("cards")}]

InitShipped ==
  /\ contacts = <<ShippedFirstOrder.contact>>
  /\ crmTags = ShippedFirstOrder.crmTags
  /\ wh = [i \in WhIds |-> WhIdle]
  /\ bf = BfIdle
  /\ ut = UtIdle
  /\ chk = ChkIdle
  /\ go = GoIdle
  /\ synced = [e \in Emails |-> IF e = SyncedFirstOrder.email
                                 THEN <<SyncedFirstOrder.paymentId>> ELSE <<>>]
  /\ faults = [n |-> 0, last |-> "ok"]
  /\ invocations = 2

\* the operations that write contacts, one at a time, after that shipment
ShippedNext ==
  \/ Quiet /\ invocations <= MaxInvocations /\ WhReceive(1)
  \/ Quiet /\ invocations <= MaxInvocations /\ BfStart
  \/ Quiet /\ invocations <= MaxInvocations /\ UtStart
  \/ WebhookSteps
  \/ BackfillSteps
  \/ TrackingSteps

SpecShipped == InitShipped /\ [][ShippedNext]_vars

\* order listings and tracking updates, one at a time, after that shipment
ListingNext ==
  \/ Quiet /\ invocations <= MaxInvocations /\ GoStart
  \/ Quiet /\ invocations <= MaxInvocations /\ UtStart
  \/ OrdersSteps
  \/ TrackingSteps

SpecListing == InitShipped /\ [][ListingNext]_vars

\* a backfill run and the webhook are separate functions and may run at the
\* same time: every awaited request of one is a point where the other may
\* take its steps
BackfillWebhookNext ==
  \/ invocations < MaxInvocations /\ WhReceive(1)
  \/ invocations < MaxInvocations /\ BfStart
  \/ WebhookSteps /\ ProvidersUp
  \/ BackfillSteps /\ ProvidersUp

SpecBackfillWebhook == Init /\ [][BackfillWebhookNext]_vars

\* deliveries of the provider's events are handled by separate invocations of
\* the webhook function, which may run at the same time: every awaited
\* request of one invocation is a point where the other may take its steps.
\* The second instance is started only for a delivery that arrives while the
\* first is busy.
ConcurrentNext ==
  \E i \in WhIds :
    \/ invocations <= MaxInvocations /\ (i = 2 => wh[1].pc # "idle") /\ WhReceive(i)
    \/ WhRetrieve(i) /\ ProvidersUp
    \/ WhSearch(i) /\ ProvidersUp
    \/ WhDetail(i) /\ ProvidersUp
    \/ WhWrite(i) /\ ProvidersUp
    \/ WhTagSearch(i) /\ ProvidersUp
    \/ WhTagCreate(i) /\ ProvidersUp
    \/ WhTagApply(i) /\ ProvidersUp
    \/ WhReturn(i)

SpecConcurrent == InitConcurrent /\ [][ConcurrentNext]_vars

\* ------------------------------------------------------------ properties
\* payment ids of the entries of an order-history content, first entry first
HistoryPids(h) ==
  LET entries == SelectSeq(h, LAMBDA tok : tok.k = "entry")
  IN [k \in 1..Len(entries) |-> entries[k].pid]

\* a sequence without its repeated elements, first occurrences kept in order
RECURSIVE Distinct(_)
Distinct(seq) ==
  IF seq = <<>> THEN <<>>
  ELSE <<seq[1]>> \o Distinct(SelectSeq(Tail(seq), LAMBDA x : x # seq[1]))

AmountPaidOf(pid) ==
  SessAmountTotal(CHOOSE s \in SessionIds : SessPaymentIntent(s) = pid)

RECURSIVE SumAmountPaid(_)
SumAmountPaid(pids) ==
  IF pids = <<>> THEN 0 ELSE AmountPaidOf(pids[1]) + SumAmountPaid(Tail(pids))

\* a field content is an amount written with exactly two decimals
TwoDecimals(str, amountCents) ==
  /\ Len(str) >= 4
  /\ str[Len(str) - 2] = "."
  /\ \A k \in 1..Len(str) : k # Len(str) - 2 => IsDigit(str[k])
  /\ (Len(str) > 4 => str[1] # "0")
  /\ parseFloat(str) = amountCents

RealEmails == Emails \ {NoEmail}

\* C1: at rest, after completed webhook syncs for an email, the contact's
\* total spent is the sum of amountPaid over the distinct payment ids synced
\* (a payment id synced twice counts once).
C1_TotalSpentSumsDistinctPayments ==
  Quiet =>
    \A e \in RealEmails :
      synced[e] # <<>> =>
        /\ ContactsByEmail(e) # {}
        /\ TwoDecimals(contacts[FirstContact(e)].cf[TOTAL_SPENT],
                       SumAmountPaid(Distinct(synced[e])))

\* C2: at rest, after completed webhook syncs for an email, the order history
\* holds exactly one entry per distinct synced payment id, newest first.
C2_HistoryOneEntryPerPayment ==
  Quiet =>
    \A e \in RealEmails :
      synced[e] # <<>> =>
        /\ ContactsByEmail(e) # {}
        /\ HistoryPids(contacts[FirstContact(e)].cf[ORDER_HISTORY]) = Distinct(synced[e])

\* C3: after sync(R1) then sync(R2) for one email with distinct payment ids,
\* both completed, total spent is amountPaid(R1) + amountPaid(R2) and the
\* history holds two entries, R2's first, whatever the CRM answered to the
\* reads of sync(R2).
C3_TwoSyncsAccumulate ==
  Quiet =>
    \A e \in RealEmails :
      (Len(synced[e]) = 2 /\ synced[e][1] # synced[e][2]) =>
        /\ ContactsByEmail(e) # {}
        /\ TwoDecimals(contacts[FirstContact(e)].cf[TOTAL_SPENT],
                       AmountPaidOf(synced[e][1]) + AmountPaidOf(synced[e][2]))
        /\ HistoryPids(contacts[FirstContact(e)].cf[ORDER_HISTORY]) = synced[e]

\* the contact a sync created for an order with a new email
CreatedContactOk(order, contactId) ==
  /\ contactId \in 1..Len(contacts)
  /\ ContactsByEmail(order.email) = {contactId}
  /\ TwoDecimals(contacts[contactId].cf[TOTAL_SPENT], order.amountPaid)
  /\ HistoryPids(contacts[contactId].cf[ORDER_HISTORY]) = <<order.paymentId>>
  /\ Len(contacts[contactId].cf[ORDER_HISTORY]) = 1

TagPcs == {"tagSearch", "tagCreate", "tagApply"}

\* C4: once a sync (webhook or backfill) for an order whose email matched no
\* CRM contact has written its contact, and when it has completed, exactly
\* one contact has that email, its total spent is amountPaid with two
\* decimals and its order history has exactly one entry.
C4_NewEmailCreatesOneContact ==
  /\ \A i \in WhIds :
       (/\ wh[i].pc \in TagPcs \/ (wh[i].pc = "done" /\ wh[i].sync = "ok")
        /\ ~wh[i].isReturningCustomer
        /\ wh[i].order.email # NoEmail)
       => CreatedContactOk(wh[i].order, wh[i].contactId)
  /\ (bf.pc \in TagPcs /\ ~bf.known) => CreatedContactOk(bf.order, bf.contactId)

C4_Witness ==
  /\ wh[1].pc = "done"
  /\ wh[1].sync = "ok"
  /\ ~wh[1].isReturningCustomer
  /\ wh[1].order.email # NoEmail
  /\ Len(contacts) = 1

BfSyncPcs == {"syncFind", "syncWrite"} \cup TagPcs

\* C5: a backfill run never writes for a session whose email matched, at the
\* guard lookup, a contact with a populated payment-id field (311): no
\* contact write has been made for the session the run is working on.
C5_BackfillSkipsSyncedContacts ==
  (bf.pc \in TagPcs) => bf.sessions[bf.idx] \notin bf.guarded

\* C6: a dry-run backfill issues no CRM write: contacts and tags are what
\* they were when the run started, whatever it reported as would_sync.
C6_DryRunWritesNothing ==
  (bf.pc \notin {"idle", "crashed"} /\ bf.dryRun) =>
    /\ bf.crmWrites = 0
    /\ contacts = bf.before.contacts
    /\ crmTags = bf.before.crmTags
    /\ bf.pc \notin BfSyncPcs
    /\ \A d \in 1..Len(bf.details) : bf.details[d].status # "synced"

C6_Witness ==
  /\ bf.pc = "done"
  /\ bf.statusCode = 200
  /\ bf.dryRun
  /\ bf.synced >= 2
  /\ \E d \in 1..Len(bf.details) : bf.details[d].status = "would_sync"

\* C7: the backfill runs live only for a body that is a JSON object whose
\* dryRun is the boolean false; for every other body (flag omitted, body
\* missing or unparseable, any other dryRun value) the run is a dry run.
C7_LiveOnlyOnExplicitFalse ==
  bf.pc \in {"list", "crashed"} =>
    IF bf.body.kind = "object" /\ bf.body.dryRun = "false"
    THEN bf.pc = "list" /\ ~bf.dryRun
    ELSE bf.pc = "list" /\ bf.dryRun

\* C8: a session's failure (session retrieve, contact create or update) is
\* recorded in errors under its session id and never ends the run: the
\* handler reaches its 200 report only with every listed session visited.
C8_SessionFailuresDoNotAbort ==
  /\ \A s \in bf.failed : \E k \in 1..Len(bf.errors) : bf.errors[k] = s
  /\ (bf.pc = "done" /\ bf.sessions # <<>>) =>
       /\ bf.statusCode = 200
       /\ bf.processed = Len(bf.sessions)
       /\ bf.idx = Len(bf.sessions)

C8_Witness ==
  /\ bf.pc = "done"
  /\ bf.statusCode = 200
  /\ Len(bf.errors) = 1
  /\ bf.errors[1] = bf.sessions[1]
  /\ bf.processed = MaxSessions
  /\ Len(bf.details) = MaxSessions - 1

\* C9: for a session without customer email no entry point makes a CRM
\* request: the webhook issues no CRM call for it and the backfill never
\* reaches its guard lookup or sync for it.
C9_NoEmailNoCrmRequest ==
  /\ \A i \in WhIds :
       (wh[i].sess # 0 /\ SessEmail(wh[i].sess) = NoEmail) => wh[i].crmCalls = 0
  /\ (bf.pc \in {"guard"} \cup BfSyncPcs) => SessEmail(bf.sessions[bf.idx]) # NoEmail

\* C10: updateTracking for an email that matches no contact performs no CRM
\* write and fails: when the search answers, with the not-found error.
C10_UnknownEmailNoWrite ==
  (ut.pc \notin {"idle"} /\ ut.statusCode \notin {400, 401, 405} /\ ut.body.kind = "object" /\ ~ut.known) =>
    /\ ut.crmWrites = 0
    /\ ut.pc \in {"search", "done"}
    /\ ut.pc = "done" =>
         /\ ut.statusCode = 500
         /\ ut.error \in {"No contact found", "Contact search failed", "not configured"}
         /\ (ut.crmCalls = 1 /\ ut.error # "Contact search failed") => ut.error = "No contact found"

C10_Witness ==
  /\ ut.pc = "done"
  /\ ut.body.email = UnknownEmail
  /\ ut.error = "No contact found"
  /\ ut.statusCode = 500
  /\ Len(contacts) > 0

\* the tracking fields of a contact
CardsTracked(c) == c.cf[CARDS_TRACKING_NUMBER] # <<>>

BookTracked(c) == c.cf[BOOK_TRACKING_NUMBER] # <<>>

\* C11: every contact is in one of the three tracking states (none, cards
\* only, cards and book): the book tracking number is never populated while
\* the cards tracking number is empty.
C11_BookTrackingOnlyAfterCards ==
  \A c \in 1..Len(contacts) : BookTracked(contacts[c]) => CardsTracked(contacts[c])

\* C12: at rest, when every provider call so far has succeeded, no contact
\* carries both the awaiting tag and the shipped tag of the same leg.
C12_AwaitingAndShippedExclusive ==
  (Quiet /\ faults.n = 0) =>
    \A c \in 1..Len(contacts) :
      /\ ~({"Awaiting Shipment", "Cards Shipped"} \subseteq contacts[c].tags)
      /\ ~({"Pending Book Shipment", "Book Shipped"} \subseteq contacts[c].tags)

\* the status the orders listing is to show for an order of a contact
StatusFromTracking(hasPreOrder, c) ==
  IF ~CardsTracked(c) THEN "pending"
  ELSE IF hasPreOrder THEN (IF BookTracked(c) THEN "fulfilled" ELSE "partial")
  ELSE "fulfilled"

\* C13: every order a get-orders handler lists carries the status derived
\* from its contact's tracking fields: pending if nothing shipped; with
\* hasPreOrder, partial on cards tracking only and fulfilled on both; without
\* it, fulfilled on cards tracking.  Stated for a deployment with the CRM
\* token configured and every provider call answered with success.
C13_ListedStatusFromTrackingFields ==
  \A k \in 1..Len(go.orders) :
    LET o == go.orders[k]
    IN (go.keapToken /\ faults.n = 0 /\ ContactsByEmail(o.email) # {}
        /\ (BookTracked(contacts[FirstContact(o.email)]) => CardsTracked(contacts[FirstContact(o.email)])))
       => o.status = StatusFromTracking(o.hasPreOrder,
                                        contacts[FirstContact(o.email)])

\* C14: check-fulfillment answers found=false with both flags false for an
\* email without contact; for a matching contact found=true, each leg's flag
\* is true iff its tracking field (315, 319) is non-empty, and the tracking
\* number is non-null exactly when the flag is true.
C14_CheckFulfillmentReadsTrackingFields ==
  (chk.pc = "done" /\ chk.statusCode = 200) =>
    IF ContactsByEmail(chk.email) = {}
    THEN ~chk.result.found /\ ~chk.result.cardsShipped /\ ~chk.result.bookShipped
    ELSE LET c == contacts[FirstContact(chk.email)]
         IN /\ chk.result.found
            /\ chk.result.cardsShipped <=> (c.cf[315] # <<>>)
            /\ chk.result.bookShipped <=> (c.cf[319] # <<>>)
            /\ chk.result.cardsShipped <=> ~chk.result.cardsTrackingNumber.null
            /\ chk.result.bookShipped <=> ~chk.result.bookTrackingNumber.null
            /\ chk.result.cardsShipped => chk.result.cardsTrackingNumber.content = c.cf[315]
            /\ chk.result.bookShipped => chk.result.bookTrackingNumber.content = c.cf[319]

C14_Witness ==
  /\ chk.pc = "done"
  /\ chk.statusCode = 200
  /\ chk.result.found
  /\ chk.result.cardsShipped
  /\ ~chk.result.bookShipped
  /\ ~chk.result.cardsTrackingNumber.null

\* the tag set of an Order Record
ExpectedTags(order, existedBefore) ==
  {"Order Received", "1st Edition", "Awaiting Shipment", "Month Year"}
  \cup {"Cards Only" : k \in {j \in 1..Len(order.cartItems) : order.cartItems[j] = "cards-only"}}
  \cup {"Cards + Book Bundle" :
          k \in {j \in 1..Len(order.cartItems) : order.cartItems[j] = "cards-book-bundle"}}
  \cup (IF order.hasPreOrder THEN {"Pre-Order", "Pending Book Shipment"} ELSE {})
  \cup (IF existedBefore THEN {"Repeat Customer"} ELSE {})

\* C15: the tags a sync (webhook or backfill) sets out to apply are exactly
\* the three base tags, one product tag per cart item with a known product
\* id, the two pre-order tags iff hasPreOrder, the Repeat Customer tag iff
\* the contact existed before the sync, and one month/year tag.
C15_TagSetOfOrderRecord ==
  /\ \A i \in WhIds :
       wh[i].pc \in TagPcs =>
         {wh[i].tags[k] : k \in 1..Len(wh[i].tags)} = ExpectedTags(wh[i].order, wh[i].known)
  /\ bf.pc \in TagPcs =>
       {bf.tags[k] : k \in 1..Len(bf.tags)} = ExpectedTags(bf.order, bf.known)

\* C16: once a sync has written its contact, a failed tag is passed over:
\* the loop goes on to each remaining tag and the sync ends in success with
\* the contact id (webhook), the session tallied as synced (backfill).
C16_TagFailuresDoNotFailSync ==
  /\ \A i \in WhIds :
       /\ (wh[i].pc = "done" /\ wh[i].tags # <<>>) =>
            /\ wh[i].sync = "ok"
            /\ wh[i].statusCode = 200
            /\ wh[i].contactId \in 1..Len(contacts)
            /\ wh[i].tagIdx = Len(wh[i].tags)
       /\ wh[i].pc \in TagPcs =>
            \A name \in wh[i].tagErrors : \E k \in 1..(wh[i].tagIdx - 1) : wh[i].tags[k] = name
  /\ \A s \in bf.written :
       /\ \A k \in 1..Len(bf.errors) : bf.errors[k] # s
       /\ \/ bf.pc \in TagPcs /\ bf.sessions[bf.idx] = s
          \/ \E d \in 1..Len(bf.details) : bf.details[d] = [sessionId |-> s, status |-> "synced"]
  /\ bf.pc \in TagPcs =>
       \A name \in bf.tagErrors : \E k \in 1..(bf.tagIdx - 1) : bf.tags[k] = name

C16_Witness ==
  /\ wh[1].pc = "done"
  /\ wh[1].sync = "ok"
  /\ wh[1].tagErrors = {"Order Received"}
  /\ Cardinality(contacts[wh[1].contactId].tags) = Len(wh[1].tags) - 1

\* C17: the payload a sync is about to send carries opt_in_reason only when
\* email consent was given (never null) and an addresses block only when a
\* shipping address is present (never an empty block).
C17_PayloadOmitsAbsentParts ==
  /\ \A i \in WhIds :
       wh[i].pc = "write" =>
         LET p == WebhookPayload(wh[i].order, wh[i].orderHistory, wh[i].totalSpent)
         IN /\ p.optIn = (IF wh[i].order.emailConsent THEN "reason" ELSE "absent")
            /\ p.addr = (IF wh[i].order.shippingAddress THEN "block" ELSE "absent")
  /\ bf.pc = "syncWrite" =>
       LET p == BackfillPayload(bf.order)
       IN /\ p.optIn = (IF bf.order.emailConsent THEN "reason" ELSE "absent")
          /\ p.addr = (IF bf.order.shippingAddress THEN "block" ELSE "absent")

WhContactPcs == {"search", "detail", "write"}

\* C18: a CRM call of a sync answered 429 is issued again: the sync stays at
\* that call (same step, same tag) and treats the answer neither as success,
\* nor as not found, nor as a failure.
C18_RateLimitedCallsReissued ==
  [][(faults'.n > faults.n /\ faults'.last = "r429") =>
       /\ wh[1].pc \in WhContactPcs \cup TagPcs =>
            wh'[1].pc = wh[1].pc /\ wh'[1].tagIdx = wh[1].tagIdx
       /\ bf.pc \in BfSyncPcs => bf'.pc = bf.pc /\ bf'.tagIdx = bf.tagIdx]_vars

\* C19: a CRM call answered with a non-success status other than 429 makes
\* the calling step fail: the sync fails, the session or tag is recorded as
\* failed, the endpoint answers 500; the answer is never read as no contact,
\* no tag or no existing history.
C19_FailedCallsFailTheStep ==
  [][(faults'.n > faults.n /\ faults'.last = "err") =>
       /\ wh[1].pc \in WhContactPcs => wh'[1].sync = "failed"
       /\ wh[1].pc \in TagPcs => wh[1].tags[wh[1].tagIdx] \in wh'[1].tagErrors
       /\ bf.pc \in {"guard", "syncFind", "syncWrite"} =>
            \E k \in 1..Len(bf'.errors) : bf'.errors[k] = bf.sessions[bf.idx]
       /\ bf.pc \in TagPcs => bf.tags[bf.tagIdx] \in bf'.tagErrors
       /\ ut.pc \in {"search", "update"} => ut'.statusCode = 500
       /\ ut.pc = "awaitingSearch" => ut'.error # "none"
       /\ chk.pc = "search" => chk'.statusCode = 500
       /\ go.pc = "status" => go'.statusCode = 500]_vars

\* C20: a request to an admin endpoint (backfill, check-fulfillment,
\* get-orders, update-tracking) with the endpoint's method whose
\* Authorization header is not exactly Bearer <ADMIN_API_KEY>, or with the key
\* unset, is answered 401 without any call to the payments provider or the CRM.
C20_UnauthorizedAnswered401 ==
  /\ (bf.pc # "idle" /\ bf.statusCode # 405 /\ ~bf.exact) =>
       /\ bf.pc = "done" /\ bf.statusCode = 401
       /\ bf.crmCalls = 0 /\ bf.stripeCalls = 0
  /\ (ut.pc # "idle" /\ ut.statusCode # 405 /\ ~ut.exact) =>
       /\ ut.pc = "done" /\ ut.statusCode = 401
       /\ ut.crmCalls = 0
  /\ (chk.pc # "idle" /\ chk.statusCode # 405 /\ ~chk.exact) =>
       /\ chk.pc = "done" /\ chk.statusCode = 401
       /\ chk.crmCalls = 0
  /\ (go.pc # "idle" /\ go.statusCode # 405 /\ ~go.exact) =>
       /\ go.pc = "done" /\ go.statusCode = 401
       /\ go.crmCalls = 0 /\ go.stripeCalls = 0

C20_Witness ==
  /\ go.pc = "done"
  /\ go.statusCode = 401
  /\ ~go.exact
  /\ go.variant = "get-inventory"
  /\ Len(contacts) > 0

\* C21: a handler that finds a provider credential missing (the CRM access
\* token or the payments secret key) ends with 500 and has made no request to
\* either provider: backfill, check-fulfillment, update-tracking, get-orders
\* and the webhook sync.
C21_MissingCredentialAnswered500 ==
  /\ \A i \in WhIds :
       wh[i].missing # "none"
         => wh[i].pc = "done" /\ wh[i].statusCode = 500
            /\ wh[i].crmCalls = 0 /\ wh[i].stripeCalls = 0
  /\ bf.missing # "none"
       => bf.pc = "done" /\ bf.statusCode = 500 /\ bf.crmCalls = 0 /\ bf.stripeCalls = 0
  /\ ut.missing # "none" => ut.pc = "done" /\ ut.statusCode = 500 /\ ut.crmCalls = 0
  /\ chk.missing # "none" => chk.pc = "done" /\ chk.statusCode = 500 /\ chk.crmCalls = 0
  /\ go.missing # "none"
       => go.pc = "done" /\ go.statusCode = 500 /\ go.crmCalls = 0 /\ go.stripeCalls = 0

\* C22: an authorized update-tracking request whose body is missing, or lacks
\* email, trackingNumber or shipmentType, or names a shipmentType other than
\* cards or book, and an authorized check-fulfillment request without an email,
\* is answered 400 and issues no CRM call.
C22_InvalidRequestAnswered400 ==
  /\ (/\ ut.pc = "done" /\ ut.exact /\ ut.statusCode # 405
      /\ \/ ut.body.kind = "missing"
         \/ ut.body.email = "" \/ ut.body.trackingNumber = "" \/ ut.body.shipmentType = ""
         \/ ut.body.shipmentType \notin {"cards", "book"})
       => ut.statusCode = 400 /\ ut.crmCalls = 0
  /\ (chk.pc = "done" /\ chk.exact /\ chk.statusCode # 405 /\ chk.email = "")
       => chk.statusCode = 400 /\ chk.crmCalls = 0

\* C23: in updateTrackingInKeap, once the tracking-field update has succeeded,
\* the call never throws: the shipped tag and then the awaiting tag are each
\* attempted whatever became of the other, and the handler answers 200 with
\* the contact id for every outcome of the two tag operations.
C23_TagOperationsIndependent ==
  ut.updated
    => /\ ut.pc \in {"shippedSearch", "shippedCreate", "shippedApply",
                     "awaitingSearch", "awaitingRemove", "done"}
       /\ ut.pc \in {"awaitingSearch", "awaitingRemove"} => ut.shipped \in {"ok", "failed"}
       /\ ut.pc = "done"
            => /\ ut.statusCode = 200
               /\ ut.contactId \in 1..Len(contacts)
               /\ ut.shipped \in {"ok", "failed"}
               /\ ut.awaiting \in {"ok", "failed", "noTag"}

\* the shipped tag failed, the awaiting tag was still removed and the request
\* was answered 200
C23_Witness ==
  /\ ut.pc = "done" /\ ut.updated /\ ut.statusCode = 200
  /\ ut.shipped = "failed" /\ ut.awaiting = "ok"
  /\ awaitingTagName(ut.body.shipmentType) \notin contacts[ut.contactId].tags

\* the session's cart metadata is missing or is not JSON
BadCartMeta(s) == SessMetaCartItems(s).kind # "json"

\* C24: for a session whose cart metadata is missing or cannot be parsed, the
\* Order Record of the webhook and of the backfill has an empty cart, the
\* parse never fails the operation (no session error is recorded for it
\* without a provider failure, and a webhook sync whose provider calls all
\* succeeded ends ok), and the contact is still written with the order's
\* payment id.
C24_BadCartProceedsWithEmptyCart ==
  /\ \A i \in WhIds :
       (wh[i].order # NoOrder /\ BadCartMeta(wh[i].sess))
         => /\ wh[i].order.cartItems = <<>>
            /\ (wh[i].pc = "done" /\ faults.n = 0 /\ wh[i].missing = "none")
                 => wh[i].sync = "ok"
            /\ (wh[i].pc \in TagPcs \/ wh[i].sync = "ok")
                 => contacts[wh[i].contactId].cf[PAYMENT_ID] = <<wh[i].order.paymentId>>
  /\ (bf.pc \in BfSyncPcs /\ BadCartMeta(bf.sessions[bf.idx]))
       => /\ bf.order.cartItems = <<>>
          /\ bf.pc \in TagPcs
               => contacts[bf.contactId].cf[PAYMENT_ID] = <<bf.order.paymentId>>
  /\ \A k \in 1..Len(bf.errors) : BadCartMeta(bf.errors[k]) => bf.errors[k] \in bf.failed

\* a webhook sync of the session whose cart is not JSON completed and wrote
\* the contact
C24_Witness ==
  /\ wh[1].pc = "done" /\ wh[1].sync = "ok"
  /\ SessMetaCartItems(wh[1].sess).kind = "unparseable"
  /\ wh[1].order.cartItems = <<>>
  /\ contacts[wh[1].contactId].cf[PAYMENT_ID] = <<wh[1].order.paymentId>>

\* C25: the Order Record's hasPreOrder is true exactly when some item of its
\* cart is the cards-book-bundle product, in the webhook and in the backfill,
\* also when the cart metadata could not be parsed (the cart is then empty).
C25_HasPreOrderIffBundleInCart ==
  /\ \A i \in WhIds :
       wh[i].order # NoOrder
         => (wh[i].order.hasPreOrder
               <=> \E k \in 1..Len(wh[i].order.cartItems) :
                     wh[i].order.cartItems[k] = "cards-book-bundle")
  /\ bf.order # NoOrder
       => (bf.order.hasPreOrder
             <=> \E k \in 1..Len(bf.order.cartItems) : bf.order.cartItems[k] = "cards-book-bundle")

\* C26: nothing serialises two webhook syncs of the same contact.  A contact
\* write that succeeds stores the order history and the total spent which the
\* sync computed from its own earlier read, whatever another sync has written
\* to the contact since; so two syncs with distinct payment ids that both
\* read the same prior history and total leave the contact with the later
\* write only (the state C26_Witness).
C26_WriteStoresOwnEarlierRead ==
  [][\A i \in WhIds :
       (wh[i].pc = "write" /\ wh'[i].pc = "tagSearch")
         => /\ contacts'[wh'[i].contactId].cf[ORDER_HISTORY] = wh[i].orderHistory
            /\ contacts'[wh'[i].contactId].cf[TOTAL_SPENT] = toFixed2(wh[i].totalSpent)]_vars

\* both syncs of one existing contact completed; they had read the same prior
\* total; the contact's total is the prior total plus one of the two amounts
\* and its history lacks the other order's payment id
C26_Witness ==
  /\ wh[1].pc = "done" /\ wh[1].sync = "ok" /\ wh[1].isReturningCustomer
  /\ wh[2].pc = "done" /\ wh[2].sync = "ok" /\ wh[2].isReturningCustomer
  /\ wh[1].contactId = wh[2].contactId
  /\ wh[1].order.paymentId # wh[2].order.paymentId
  /\ wh[1].totalSpent - wh[1].order.amountPaid = wh[2].totalSpent - wh[2].order.amountPaid
  /\ \E i \in WhIds :
       LET c == contacts[wh[i].contactId]
           lost == wh[3 - i].order
       IN /\ c.cf[TOTAL_SPENT] = toFixed2(wh[i].totalSpent)
          /\ c.cf[ORDER_HISTORY] = wh[i].orderHistory
          /\ \A k \in 1..Len(HistoryPids(c.cf[ORDER_HISTORY])) :
               HistoryPids(c.cf[ORDER_HISTORY])[k] # lost.paymentId

\* the order of the CRM calls of one sync: from the call at step a (tag
\* number m) the sync goes to step b (tag number n)
SyncCallOrder(a, m, b, n, first, write, out) ==
  \/ a = first /\ b \in {first, "detail", write} \cup out
  \/ a = "detail" /\ b = write
  \/ a = write /\ (b \in out \/ (b = "tagSearch" /\ n = 1))
  \/ a = "tagSearch" /\ (b \in out \/ (b \in {"tagSearch"} /\ n \in {m, m + 1})
                                   \/ (b \in {"tagCreate", "tagApply"} /\ n = m))
  \/ a = "tagCreate" /\ (b \in out \/ (b = "tagSearch" /\ n = m + 1) \/ (b = "tagApply" /\ n = m))
  \/ a = "tagApply" /\ (b \in out \/ (b = "tagSearch" /\ n = m + 1))

\* C27: within one sync (webhook or backfill) the CRM calls are issued one at
\* a time in a fixed order: the contact lookup, then the contact create or
\* update, then for each tag in list order its get-or-create and then its
\* application.  A tag call is issued only after the contact write has
\* succeeded, and none once the write has failed.
C27_SyncCallsInFixedOrder ==
  [][/\ \A i \in WhIds :
          (wh[i].pc \in WhContactPcs \cup TagPcs /\ wh'[i] # wh[i])
            => /\ SyncCallOrder(wh[i].pc, wh[i].tagIdx, wh'[i].pc, wh'[i].tagIdx,
                                "search", "write", {"done"})
               /\ wh'[i].crmCalls = wh[i].crmCalls + 1
               /\ (wh[i].pc = "write" /\ wh'[i].pc \in TagPcs)
                    => contacts'[wh'[i].contactId].cf[PAYMENT_ID] = <<wh[i].order.paymentId>>
               /\ (wh[i].pc = "write" /\ wh'[i].pc = "done") => wh'[i].sync = "failed"
     /\ (bf.pc \in BfSyncPcs /\ bf' # bf)
          => /\ SyncCallOrder(bf.pc, bf.tagIdx, bf'.pc, bf'.tagIdx,
                              "syncFind", "syncWrite", {"retrieve", "done"})
             /\ bf'.crmCalls = bf.crmCalls + 1
             /\ (bf.pc = "syncWrite" /\ bf'.pc \in TagPcs)
                  => contacts'[bf'.contactId].cf[PAYMENT_ID] = <<bf.order.paymentId>>
             /\ (bf.pc = "syncWrite" /\ bf'.pc \notin TagPcs)
                  => Len(bf'.errors) = Len(bf.errors) + 1]_vars

\* a webhook sync is at the application of the last tag of its list, every
\* earlier call made in order
C27_Witness ==
  /\ wh[1].pc = "tagApply" /\ wh[1].tagIdx = Len(wh[1].tags) /\ wh[1].tagIdx >= 5
  /\ wh[1].isReturningCustomer
  /\ wh[1].crmCalls >= 3 + wh[1].tagIdx

\* the elements of a sequence
Range(seq) == {seq[k] : k \in 1..Len(seq)}

\* C28: syncToKeap of the backfill and integrateWithKeap of the webhook are
\* one Sync Engine: for the Order Record the backfill is about to write and
\* the contact state it found, the backfill's payload carries the order
\* history and total spent the webhook would write (merged with the contact's
\* prior values), and both apply the same set of tags.
C28_BackfillWritesWhatWebhookWould ==
  bf.pc = "syncWrite"
    => LET order == bf.order
           history == IF bf.existing THEN MergedHistory(order, contacts[bf.contactId])
                      ELSE <<Entry(order.paymentId, order.amountPaid)>>
           total == IF bf.existing THEN MergedTotal(order, contacts[bf.contactId])
                    ELSE order.amountPaid
           webhook == WebhookPayload(order, history, total)
           backfill == BackfillPayload(order)
       IN /\ backfill.cf[ORDER_HISTORY] = webhook.cf[ORDER_HISTORY]
          /\ backfill.cf[TOTAL_SPENT] = webhook.cf[TOTAL_SPENT]
          /\ Range(BackfillTags(order)) = Range(WebhookTags(order, bf.existing))

\* C29: the backfill's 429 retry in findKeapContact and getOrCreateTag has no
\* ceiling: whenever such a call is answered 429 the run stays at the same
\* request, however often that has happened.  If every request is answered
\* in the end, and the retrying calls in the end with something other than
\* 429, a run that has listed its sessions terminates with its report (200).
C29_RetryUnboundedRunTerminates ==
  /\ [][(bf.pc \in BfRetryPcs /\ bf' # bf /\ faults'.last = "r429")
          => /\ bf'.pc = bf.pc /\ bf'.idx = bf.idx /\ bf'.tagIdx = bf.tagIdx
             /\ bf'.errors = bf.errors /\ bf'.details = bf.details
             /\ bf'.tagErrors = bf.tagErrors]_vars
  /\ (bf.pc \in {"retrieve", "guard", "syncFind", "syncWrite", "tagSearch", "tagCreate", "tagApply"}
        ~> (bf.pc = "done" /\ bf.statusCode = 200 /\ bf.processed = Len(bf.sessions)))

\* a run whose guard lookup was answered 429 again and again has completed
\* with its report
C29_Witness ==
  /\ bf.pc = "done" /\ bf.statusCode = 200 /\ bf.processed = Len(bf.sessions)
  /\ bf.retryTick = 1 /\ ~bf.dryRun /\ bf.synced >= 1

\* C30: for a verified checkout.session.completed or async_payment_succeeded
\* event whose session could be retrieved (the Order Record was built), the
\* webhook answers 200, whether the CRM sync succeeded or failed.
C30_RetrievedSessionAnswered200 ==
  \A i \in WhIds :
    (/\ wh[i].pc = "done"
     /\ wh[i].etype \in {"checkout.session.completed", "checkout.session.async_payment_succeeded"}
     /\ wh[i].order # NoOrder)
      => wh[i].statusCode = 200 /\ wh[i].sync \in {"ok", "failed"}

\* the contact write of a sync was answered with a failure and the event was
\* still acknowledged with 200
C30_Witness ==
  /\ wh[1].pc = "done" /\ wh[1].order # NoOrder /\ wh[1].sync = "failed"
  /\ wh[1].crmWrites = 1 /\ faults.last # "ok" /\ wh[1].statusCode = 200

\* C31: the webhook makes CRM and payments calls only for an event that
\* passed signature verification and whose type is checkout.session.completed
\* or checkout.session.async_payment_succeeded.  A POST that fails
\* verification is answered 400 and a verified event of any other type is
\* answered 200, both without any CRM or payments request.
C31_OnlyVerifiedCheckoutEventsSync ==
  \A i \in WhIds :
    /\ (wh[i].crmCalls > 0 \/ wh[i].stripeCalls > 0 \/ wh[i].pc \notin {"idle", "done"})
         => wh[i].verification = "passed" /\ wh[i].etype \in SyncEventTypes
    /\ wh[i].verification = "failed"
         => /\ wh[i].pc = "done" /\ wh[i].statusCode = 400
            /\ wh[i].crmCalls = 0 /\ wh[i].stripeCalls = 0 /\ wh[i].crmWrites = 0
    /\ (wh[i].verification = "passed" /\ wh[i].etype \notin SyncEventTypes)
         => /\ wh[i].pc = "done" /\ wh[i].statusCode = 200
            /\ wh[i].crmCalls = 0 /\ wh[i].stripeCalls = 0 /\ wh[i].crmWrites = 0

\* a verified async_payment_failed event was acknowledged with no provider
\* request, the CRM holding a contact it could have touched
C31_Witness ==
  /\ wh[1].pc = "done" /\ wh[1].verification = "passed"
  /\ wh[1].etype = "checkout.session.async_payment_failed"
  /\ wh[1].statusCode = 200 /\ wh[1].crmCalls = 0 /\ wh[1].stripeCalls = 0
  /\ contacts # <<>>

\* C32: the fulfilment status of a listed order is that order's own: an order
\* synced (once) to a contact after an earlier order of the same email was
\* shipped, with no tracking update for that email since, is listed as pending.
C32_LaterOrderListedPending ==
  (go.pc = "done" /\ go.statusCode = 200)
    => \A k \in 1..Len(go.orders) :
         LET o == go.orders[k]
         IN (/\ o.email # NoEmail
             /\ ContactsByEmail(o.email) # {}
             /\ CardsTracked(contacts[FirstContact(o.email)])
             /\ SessPaymentIntent(o.id) \in contacts[FirstContact(o.email)].sinceTracking
             /\ Len(SelectSeq(synced[o.email], LAMBDA p : p = SessPaymentIntent(o.id))) = 1)
              => o.status = "pending"

\* the sessions a finished run reports as synced (live) or would_sync (dry)
BfReportedSynced(b) ==
  {b.details[k].sessionId : k \in {j \in 1..Len(b.details) :
                                     b.details[j].status \in {"synced", "would_sync"}}}

\* C33: for the same session list and the same initial CRM state, with every
\* provider call succeeding, the sessions a dry run reports as would_sync are
\* the sessions a live run reports as synced, also when several listed
\* sessions share one customer email.
C33_DryRunPredictsLiveRun ==
  (/\ bf.pc = "done" /\ bf.statusCode = 200 /\ ~bf.dryRun
   /\ bf.prev.kind = "dry"
   /\ bf.prev.sessions = bf.sessions
   /\ bf.prev.before = bf.before
   /\ faults.n = 0)
    => bf.prev.synced = BfReportedSynced(bf)

\* C34: between the iterations of the backfill loop and in the returned
\* report, processed = synced + skipped + the number of errors, and details
\* has synced + skipped entries; each session processed so far is in exactly
\* one detail or error record.  Inside an iteration the session at hand is
\* counted in processed and in nothing else yet.
C34_ReportTalliesAddUp ==
  LET counted == bf.synced + bf.skipped + Len(bf.errors)
      recorded(s) == Cardinality({k \in 1..Len(bf.details) : bf.details[k].sessionId = s})
                     + Cardinality({k \in 1..Len(bf.errors) : bf.errors[k] = s})
  IN /\ Len(bf.details) = bf.synced + bf.skipped
     /\ bf.pc = "retrieve" => bf.processed = counted /\ bf.processed = bf.idx - 1
     /\ (bf.pc = "done" /\ bf.statusCode = 200)
          => bf.processed = counted /\ bf.processed = Len(bf.sessions)
     /\ bf.pc \in {"guard"} \cup BfSyncPcs => bf.processed = counted + 1
     /\ bf.pc \in {"retrieve", "guard", "done"} \cup BfSyncPcs
          => \A k \in 1..Len(bf.sessions) :
               recorded(bf.sessions[k]) = IF k <= counted THEN 1 ELSE 0

\* a returned report with a synced, a skipped and a failed session
C34_Witness ==
  /\ bf.pc = "done" /\ bf.statusCode = 200
  /\ bf.synced >= 1 /\ bf.skipped >= 1 /\ Len(bf.errors) >= 1
  /\ bf.processed = Len(bf.sessions)

\* C35: once a leg's tracking-number field of a contact is populated it stays
\* populated through every step of a webhook sync, a backfill sync and a
\* tracking update for either leg.
C35_TrackingFieldsStayPopulated ==
  [][\A c \in 1..Len(contacts) :
       /\ CardsTracked(contacts[c]) => CardsTracked(contacts'[c])
       /\ BookTracked(contacts[c]) => BookTracked(contacts'[c])]_vars

\* a later order was written to the contact whose cards had been shipped,
\* and the cards tracking number is still there
C35_Witness ==
  /\ contacts # <<>> /\ CardsTracked(contacts[1])
  /\ contacts[1].sinceTracking # {}
  /\ contacts[1].cf[PAYMENT_ID] # <<SyncedFirstOrder.paymentId>>

\* C36: a live backfill running at the same time as webhook syncs never
\* lowers a contact's total spent and never removes an entry from its order
\* history: no step takes a payment id out of a contact's history or makes
\* its total smaller.
C36_BackfillKeepsWebhookHistory ==
  [][\A c \in 1..Len(contacts) :
       /\ Range(HistoryPids(contacts[c].cf[ORDER_HISTORY]))
            \subseteq Range(HistoryPids(contacts'[c].cf[ORDER_HISTORY]))
       /\ contacts[c].cf[TOTAL_SPENT] # <<>>
            => /\ contacts'[c].cf[TOTAL_SPENT] # <<>>
               /\ parseFloat(contacts'[c].cf[TOTAL_SPENT]) >= parseFloat(contacts[c].cf[TOTAL_SPENT])]_vars

\* C37: a live backfill is idempotent over runs: after a live run that ended
\* with every listed session synced or skipped and no error recorded, a second
\* live run over the same session list issues no CRM write and reports every
\* session that has an email as skipped.  Stated for second runs that record
\* no error themselves.
C37_SecondLiveRunWritesNothing ==
  (/\ bf.pc = "done" /\ bf.statusCode = 200 /\ ~bf.dryRun
   /\ bf.prev.kind = "live"
   /\ bf.prev.errors = 0
   /\ bf.prev.sessions = bf.sessions
   /\ Len(bf.errors) = 0)
    => /\ bf.crmWrites = 0
       /\ \A k \in 1..Len(bf.sessions) :
            SessEmail(bf.sessions[k]) # NoEmail
              => \E j \in 1..Len(bf.details) :
                   /\ bf.details[j].sessionId = bf.sessions[k]
                   /\ bf.details[j].status = "skipped"

\* C39: in a live backfill sync, a tag the tag loop completes without logging
\* a failure for it is attached to the contact: when the loop moves past a
\* tag after its apply request, the tag is on the contact or is recorded as
\* failed.
C39_CompletedTagAttachedOrFailed ==
  [][(bf.pc = "tagApply" /\ bf' # bf)
       => LET tagName == bf.tags[bf.tagIdx]
          IN \/ tagName \in contacts'[bf.contactId].tags
             \/ tagName \in bf'.tagErrors]_vars

\* C38: after any interleaving of syncs (webhook and/or backfill) for the
\* same email the CRM holds at most one contact for that email: a create is
\* issued only when no contact with the email exists at that time.
C38_OneContactPerEmail ==
  \A email \in {SessEmail(s) : s \in 1..MaxSessions} \ {NoEmail} :
    Cardinality(ContactsByEmail(email)) <= 1

\* C40: in get-orders a failed CRM fulfilment lookup for one order neither
\* fails the listing nor removes the order from it: the step whose lookup
\* failed appends the order with both shipped flags false and status pending
\* and goes on to the next session, or returns 200 after the last one.
C40_FailedLookupKeepsOrderListed ==
  [][(go.pc = "status" /\ faults'.n > faults.n)
       => /\ Len(go'.orders) = Len(go.orders) + 1
          /\ SubSeq(go'.orders, 1, Len(go.orders)) = go.orders
          /\ LET o == go'.orders[Len(go'.orders)]
             IN /\ o.id = go.sessions[go.idx]
                /\ ~o.cardsShipped /\ ~o.bookShipped
                /\ o.status = "pending"
          /\ \/ go'.pc = "retrieve" /\ go'.idx = go.idx + 1
             \/ go'.pc = "done" /\ go'.statusCode = 200 /\ go.idx = Len(go.sessions)]_vars

\* a listing returned with 200 in which the lookup of the order whose cards
\* were shipped had failed: all listed sessions are in it, that order pending
C40_Witness ==
  /\ go.pc = "done" /\ go.statusCode = 200 /\ go.variant = "get-orders"
  /\ faults.n > 0 /\ faults.last # "ok"
  /\ Len(go.orders) = Len(go.sessions)
  /\ \E k \in 1..Len(go.orders) :
       /\ go.orders[k].status = "pending"
       /\ KeapStatus(go.orders[k].email).cardsShipped
  /\ \E k \in 1..Len(go.orders) : go.orders[k].status = "fulfilled"

====
